---------------------------- MODULE Spec2Model ----------------------------
(***************************************************************************)
(* MV Animator: the timeline of frame slots kept by the AnimationPlayer    *)
(* component (src/src/components/AnimationPlayer.tsx), its image           *)
(* assignment and GIF frame mapping, and the worker-backed export modal    *)
(* (src/unnamed/part_001, src/src/services/PythonExportService.ts,         *)
(* src/public/pyodide-worker.js).                                          *)
(*                                                                         *)
(* Times are exact rationals <<n, d>> (n/d seconds).  The audio clock      *)
(* reports times n/TimeDen; a slot's time is id/FPS.  JavaScript computes  *)
(* on doubles; the model computes ceil and floor on the exact values.      *)
(***************************************************************************)
EXTENDS Integers, Sequences, FiniteSets, TLC

(***************************************************************************)
(* Program constants and the bounds of the model.                          *)
(***************************************************************************)
FPS == 24

\* The audio clock reports times in units of 1/TimeDen second.
TimeDen == 36
\* The longest audio file lasts MaxTimeNum/TimeDen seconds.
MaxTimeNum == 3
\* Audio files the parent may hand to the player, one after the other.
MaxAudio == 2
\* Distinct still images the user may drop.
MaxImage == 1
\* The most sub-frames a dropped GIF holds.
MaxGifFrames == 2
\* The longest GIF lasts MaxGifNum/TimeDen seconds.
MaxGifNum == 2
\* File reads / GIF decodes that may be in flight at once.
MaxPending == 1

\* The longest timeline handed to the export modal.
MaxExportLen == 2
\* Artifacts the browser may be handed before the model stops exporting.
MaxDownloads == 1

Null == -1

\* The value of videoExport while no recording runs.
NoRecording == [pc |-> "none"]

(***************************************************************************)
(* Rational helpers: Math.ceil(t * FPS) and Math.floor(t * FPS).           *)
(***************************************************************************)
CeilDiv(n, d) == -((-n) \div d)

FloorDiv(n, d) == n \div d

RatEq(a, b) == a[1] * b[2] = b[1] * a[2]

RatLeq(a, b) == a[1] * b[2] <= b[1] * a[2]

(***************************************************************************)
(* Images.  A slot's image is null, the empty string (what "Remove Image"  *)
(* assigns) or a data URL.  A data URL is named by its kind ("img": a      *)
(* dropped still, "gif": a composited GIF sub-frame), its index, and src:  *)
(* the audio file that was current when the user dropped the file.  No     *)
(* action reads src; it tells the drops apart.                             *)
(***************************************************************************)
Img(kind, idx, src) == [kind |-> kind, idx |-> idx, src |-> src]

NullImage == Img("null", 0, 0)

EmptyUrl == Img("", 0, 0)

\* Truthy taking every string, the empty one too, for an image.
TruthyNotNull(image) == image.kind # "null"

\* JavaScript truthiness of frame.image: null and '' are falsy.
Truthy(image) == image.kind \notin {"null", ""}

VARIABLES
  frames,           \* useState<FrameData[]>: sequence of [id, time, image]
  selectedFrame,    \* useState<number | null>: a slot id or Null
  isPlaying,        \* useState(false)
  duration,         \* useState(0): the duration last reported by ready
  currentTime,      \* useState(0)
  isWaveformReady,  \* useState(false); FALSE while a WaveSurfer instance loads
  audioFile,        \* the audioFile prop: which file the parent passes
  audioDuration,    \* the duration of that file, as the audio clock decodes it
  pending,          \* file reads, GIF decodes and timeouts in flight, each with the
                    \* closure of the render that started it
  lastSelectedFrame, \* useState<number | null>(null): the slot remembered for Stop
  \* ExportModal (worker-backed), PythonExportService and the Pyodide worker
  isOpen,            \* the isOpen prop: the parent shows the modal
  isExporting,       \* useState(false)
  progress,          \* useState(0)
  isPyodideLoading,  \* useState(false); set when the modal opens
  exportOptions,     \* useState<ExportOptions>
  alertMsg,          \* the last alert() shown
  exportPc,          \* where the running handleExport call waits: idle, awaitInit, awaitResult
  svcIsInitialized,  \* PythonExportService.isInitialized
  initPromise,       \* PythonExportService.initPromise: pending, resolved, rejected
  listeners,         \* message listeners the service has on the worker
  workerInbox,       \* messages posted to the worker, not yet handled
  workerIsInitialized, \* the worker's isInitialized
  toMain,            \* messages the worker posted, not yet delivered
  downloads,         \* artifacts handed to the browser by downloadResult
  linkDownload,      \* link.download of the last artifact: its file name
  worker,            \* PythonExportService.worker: which Worker it holds, or Null
  workersCreated,    \* how many Workers initWorker has constructed
  workerRunning,     \* calls of the worker's onmessage that wait in an await
  pyodideLoads,      \* how often the worker has called loadPyodide
  videoExport,       \* exportAsVideo's closure while it draws: frameIndex, startTime, timer
  \* ExportModal (in-process backends)
  exportStatus,      \* useState<string>('')
  statusTimers,      \* setTimeout callbacks of handleExport's finally, not yet run
  calls              \* the export calls made so far, each with its backend's progress

playerVars == <<frames, selectedFrame, isPlaying, duration, currentTime,
                isWaveformReady, audioFile, audioDuration, pending, lastSelectedFrame>>

\* The service's worker and the steps inside the worker's message handler.
lifecycleVars == <<worker, workersCreated, workerRunning, pyodideLoads, videoExport>>

exportVars == <<lifecycleVars, isOpen, isExporting, progress, isPyodideLoading, exportOptions, alertMsg,
                exportPc, svcIsInitialized, initPromise, listeners, workerInbox,
                workerIsInitialized, toMain, downloads, linkDownload, exportStatus, statusTimers, calls>>

\* What only the in-process modal uses.
inProcessVars == <<exportStatus, statusTimers, calls>>

vars == <<playerVars, exportVars>>

Time(n) == <<n, TimeDen>>

Durations == {Time(n) : n \in 0..MaxTimeNum}

\* Times the audio clock can report for the loaded file: 0 .. its duration.
ClockTimes == {Time(n) : n \in 0..audioDuration[1]}

(***************************************************************************)
(* generateFrames: build ceil(duration*FPS) empty slots, only when the     *)
(* timeline has no slot yet.                                               *)
(***************************************************************************)
\* NewFrames with Math.floor in the place of Math.ceil.
NewFramesFloor(audioDur) ==
  LET totalFrames == FloorDiv(audioDur[1] * FPS, audioDur[2])
  IN [i \in 1..totalFrames |-> [id |-> i - 1, time |-> <<i - 1, FPS>>, image |-> NullImage]]

NewFrames(audioDur) ==
  LET totalFrames == CeilDiv(audioDur[1] * FPS, audioDur[2])
  IN [i \in 1..totalFrames |-> [id |-> i - 1, time |-> <<i - 1, FPS>>, image |-> NullImage]]

\* generateFrames without the frames.length === 0 test.
generateFramesAlways(frs, audioDur) == NewFrames(audioDur)

generateFrames(frs, audioDur) ==
  IF Len(frs) = 0 THEN NewFrames(audioDur) ELSE frs

(***************************************************************************)
(* Messages between PythonExportService and the worker.                    *)
(***************************************************************************)
Request(type, format, frs) == [type |-> type, format |-> format, frames |-> frs]

Response(type, extension, error) ==
  [type |-> type, extension |-> extension, error |-> error]

InitRequest == Request("init", "", <<>>)

NoFramesAlert == "No frames to export. Please add images to your frames first."

InitFailedAlert ==
  "Failed to initialize Python environment. Export functionality may be limited."

ExportFailedAlert == "Export failed"

NoFramesError == "No frames with images to export"

VideoError == "Full video generation requires additional libraries not available in Pyodide."

LoadError == "Failed to initialize Pyodide"

\* The initial value of useState<ExportOptions>.
InitialExportOptions ==
  [format |-> "gif", quality |-> 80, includeAudio |-> TRUE, useEntireSoundtrack |-> FALSE,
   resolution |-> [width |-> 640, height |-> 480]]

(***************************************************************************)
(* The modal before it is opened; the service singleton has been built:    *)
(* initWorker created the worker, registered its message handler and       *)
(* posted init.                                                            *)
(***************************************************************************)
ExportVarsInit ==
  /\ isOpen = FALSE
  /\ isExporting = FALSE
  /\ progress = 0
  /\ isPyodideLoading = FALSE
  /\ exportOptions = InitialExportOptions
  /\ alertMsg = ""
  /\ exportPc = "idle"
  /\ svcIsInitialized = FALSE
  /\ initPromise = "pending"
  /\ listeners = {"init"}
  /\ workerInbox = <<InitRequest>>
  /\ workerIsInitialized = FALSE
  /\ toMain = <<>>
  /\ downloads = 0
  /\ linkDownload = ""
  /\ worker = 1
  /\ workersCreated = 1
  /\ workerRunning = <<>>
  /\ pyodideLoads = 0
  /\ videoExport = NoRecording
  /\ exportStatus = ""
  /\ statusTimers = 0
  /\ calls = <<>>

Init ==
  /\ frames = <<>>
  /\ selectedFrame = Null
  /\ isPlaying = FALSE
  /\ duration = Time(0)
  /\ currentTime = Time(0)
  /\ isWaveformReady = FALSE
  /\ audioFile = 1
  /\ audioDuration \in Durations
  /\ pending = {}
  /\ lastSelectedFrame = Null
  /\ ExportVarsInit

(***************************************************************************)
(* handleReady, and the effect that re-runs after it when frames.length    *)
(* changed: the effect lists frames.length among its dependencies, so the  *)
(* render that commits a newly generated timeline destroys the WaveSurfer  *)
(* instance, resets isWaveformReady and loads the same file again.         *)
(***************************************************************************)
handleReady ==
  /\ ~isWaveformReady
  /\ duration' = audioDuration
  /\ frames' = generateFrames(frames, audioDuration)
  /\ isWaveformReady' = (Len(frames') = Len(frames))
  /\ UNCHANGED <<exportVars, lastSelectedFrame, selectedFrame, isPlaying, currentTime, audioFile, audioDuration, pending>>

(***************************************************************************)
(* The parent passes another audio file: the WaveSurfer effect is cleaned  *)
(* up and runs again.  It resets isWaveformReady, destroys the instance    *)
(* (its listeners were removed first, so no pause event arrives) and loads *)
(* the new file.  frames, duration and the selection are left as they are. *)
(***************************************************************************)
changeAudioFile ==
  /\ audioFile < MaxAudio
  /\ audioFile' = audioFile + 1
  /\ audioDuration' \in Durations
  /\ isWaveformReady' = FALSE
  /\ UNCHANGED <<exportVars, lastSelectedFrame, frames, selectedFrame, isPlaying, duration, currentTime, pending>>

(***************************************************************************)
(* The play, pause and finish events of the WaveSurfer instance, whichever *)
(* call of playPause(), play() or stop() made it emit them: handlePlay,    *)
(* handlePause and handleFinish set isPlaying.                             *)
(***************************************************************************)
handlePlay ==
  /\ isWaveformReady
  /\ ~isPlaying
  /\ isPlaying' = TRUE
  /\ UNCHANGED <<exportVars, lastSelectedFrame, frames, selectedFrame, duration, currentTime, isWaveformReady,
                 audioFile, audioDuration, pending>>

handlePause ==
  /\ isWaveformReady
  /\ isPlaying
  /\ isPlaying' = FALSE
  /\ UNCHANGED <<exportVars, lastSelectedFrame, frames, selectedFrame, duration, currentTime, isWaveformReady,
                 audioFile, audioDuration, pending>>

handleFinish ==
  /\ isWaveformReady
  /\ isPlaying
  /\ isPlaying' = FALSE
  /\ UNCHANGED <<exportVars, lastSelectedFrame, frames, selectedFrame, duration, currentTime, isWaveformReady,
                 audioFile, audioDuration, pending>>

(***************************************************************************)
(* The slot a reported time selects: Math.floor(time * FPS), taken only    *)
(* when it is an index of the timeline; otherwise the selection stays.     *)
(***************************************************************************)
FrameIndexForTime(t) == FloorDiv(t[1] * FPS, t[2])

\* SelectForTime clamping the index into the timeline.
SelectForTimeClamped(t, frs, sel) ==
  LET frameIndex == FrameIndexForTime(t)
  IN IF Len(frs) = 0 THEN sel
     ELSE IF frameIndex < 0 THEN 0
     ELSE IF frameIndex >= Len(frs) THEN Len(frs) - 1
     ELSE frameIndex

\* SelectForTime deselecting a slot that is selected again.
SelectForTimeToggles(t, frs, sel) ==
  LET frameIndex == FrameIndexForTime(t)
  IN IF frameIndex >= 0 /\ frameIndex < Len(frs)
     THEN (IF frameIndex = sel THEN Null ELSE frameIndex)
     ELSE sel

SelectForTime(t, frs, sel) ==
  LET frameIndex == FrameIndexForTime(t)
  IN IF frameIndex >= 0 /\ frameIndex < Len(frs) THEN frameIndex ELSE sel

\* audioprocess event during playback.
handleAudioProcess(t) ==
  /\ isWaveformReady
  /\ isPlaying
  /\ currentTime' = t
  /\ selectedFrame' = SelectForTime(t, frames, selectedFrame)
  /\ UNCHANGED <<exportVars, lastSelectedFrame, frames, isPlaying, duration, isWaveformReady, audioFile,
                 audioDuration, pending>>

\* seek / interaction event: the clock was moved to t (getCurrentTime() = t).
updateOnSeek(t) ==
  /\ isWaveformReady
  /\ currentTime' = t
  /\ selectedFrame' = SelectForTime(t, frames, selectedFrame)
  /\ UNCHANGED <<exportVars, lastSelectedFrame, frames, isPlaying, duration, isWaveformReady, audioFile,
                 audioDuration, pending>>

\* click on the waveform container while not playing; t = getCurrentTime().
handleWaveformClick(t) ==
  /\ isWaveformReady
  /\ ~isPlaying
  /\ selectedFrame' = SelectForTime(t, frames, selectedFrame)
  /\ UNCHANGED <<exportVars, lastSelectedFrame, frames, isPlaying, duration, currentTime, isWaveformReady,
                 audioFile, audioDuration, pending>>

(***************************************************************************)
(* handleFrameClick: select the slot and seekTo(frameTime / duration).     *)
(* seekTo takes a progress in [0, 1] on a loaded instance; the seek event  *)
(* it then emits runs updateOnSeek with the slot's time.  With another     *)
(* progress, or while the instance loads, the selection alone is made.     *)
(***************************************************************************)
handleFrameClick(frameId) ==
  /\ frameId \in 0..(Len(frames) - 1)
  /\ LET frameTime == frames[frameId + 1].time
     IN IF isWaveformReady /\ duration[1] > 0 /\ RatLeq(frameTime, duration)
        THEN /\ currentTime' = frameTime
             /\ selectedFrame' = SelectForTime(frameTime, frames, frameId)
        ELSE /\ selectedFrame' = frameId
             /\ UNCHANGED currentTime
  /\ UNCHANGED <<exportVars, lastSelectedFrame, frames, isPlaying, duration, isWaveformReady,
                 audioFile, audioDuration, pending>>

(***************************************************************************)
(* handleImageUpload(image, frameId), run by a callback whose render saw   *)
(* the timeline `closure`: setFrames(closure.map(...)) when frameId is an  *)
(* index of closure, no setFrames at all otherwise (cur stays).            *)
(***************************************************************************)
handleImageUpload(cur, closure, image, frameId) ==
  IF frameId # Null /\ frameId >= 0 /\ frameId < Len(closure)
  THEN [i \in 1..Len(closure) |->
          IF closure[i].id = frameId THEN [closure[i] EXCEPT !.image = image]
          ELSE closure[i]]
  ELSE cur

(***************************************************************************)
(* handleGifProcessed(gifInfo, startFrameId): the Frame Mapper.            *)
(***************************************************************************)
Min(a, b) == IF a <= b THEN a ELSE b

AudioFramesForGif(total) == CeilDiv(total[1] * FPS, total[2])

AvailableFrames(startFrameId, audioFramesForGif, len) ==
  Min(startFrameId + audioFramesForGif, len) - startFrameId

\* GifFrameIndex rounding i / availableFrames down before it multiplies.
GifFrameIndexTruncated(i, availableFrames, n) ==
  Min(FloorDiv(i, availableFrames) * n, n - 1)

(***************************************************************************)
(* Math.floor((i / availableFrames) * gifInfo.frames.length) on IEEE 754   *)
(* doubles, as JavaScript computes it.  The division and the               *)
(* multiplication each round to the nearest double, ties to even.  A       *)
(* significand is kept in limbs of LimbBits bits, most significant first;  *)
(* a double [hi, mid, lo, scale] has the value                             *)
(* (hi * Limb^2 + mid * Limb + lo) / 2^scale.  The operands stay below     *)
(* 2^12, which keeps every intermediate value below 2^31.                  *)
(***************************************************************************)
\* Three limbs hold the 53 bits of a double's significand and one more bit.
LimbBits == 18

Limb == 2^LimbBits

\* How many zero bits r / a has after the binary point before its first one
\* bit, for 0 < r < a.
RECURSIVE LeadingZeros(_, _)
LeadingZeros(r, a) == IF 2 * r >= a THEN 0 ELSE 1 + LeadingZeros(2 * r, a)

\* The number of bits of h > 0.
RECURSIVE BitLength(_)
BitLength(h) == IF h = 0 THEN 0 ELSE 1 + BitLength(h \div 2)

\* hi, mid, lo after lo grew by up to one limb: the carries move up; hi is not cut.
Carried(hi, mid, lo, scale) ==
  [hi |-> hi + (mid + lo \div Limb) \div Limb,
   mid |-> (mid + lo \div Limb) % Limb,
   lo |-> lo % Limb,
   scale |-> scale]

\* The first 54 bits of r / a for a / 2 <= r < a, as three limbs q1, q2, q3 with
\* the remainder rem left after them, rounded to 53 bits: the last bit of q3 is
\* the bit that is dropped.
RoundedQuotient(q1, q2, q3, rem, scale) ==
  Carried(q1, q2,
          IF q3 % 2 = 0 THEN q3
          ELSE IF rem > 0 \/ (q3 \div 2) % 2 = 1 THEN q3 + 1
          ELSE q3 - 1,
          scale)

\* The long division r / a, one limb at a time.
QuotientLimbs(r, a, scale) ==
  RoundedQuotient((r * Limb) \div a,
                  (((r * Limb) % a) * Limb) \div a,
                  (((((r * Limb) % a) * Limb) % a) * Limb) \div a,
                  (((((r * Limb) % a) * Limb) % a) * Limb) % a,
                  scale)

\* i / a for 0 < i < a.
DoubleQuotient(i, a) ==
  QuotientLimbs(i * 2^LeadingZeros(i, a), a, LeadingZeros(i, a) + 3 * LimbBits)

\* The exact product of a significand and n, hi holding all the bits above the
\* two lower limbs.
ProductLimbs(x, n) == Carried(x.hi * n, x.mid * n, x.lo * n, x.scale)

\* p cut to 53 significant bits, of which hi holds BitLength(p.hi): the `drop`
\* lowest bits of lo are rounded away.
RoundedProduct(p, drop) ==
  IF drop <= 0 THEN p
  ELSE Carried(p.hi, p.mid,
               IF \/ (p.lo % 2^drop) > 2^(drop - 1)
                  \/ (p.lo % 2^drop) = 2^(drop - 1) /\ ((p.lo \div 2^drop) % 2) = 1
               THEN p.lo - (p.lo % 2^drop) + 2^drop
               ELSE p.lo - (p.lo % 2^drop),
               p.scale)

\* x * n for a double x > 0 and an integer n >= 1.
DoubleTimes(x, n) ==
  RoundedProduct(ProductLimbs(x, n),
                 BitLength(ProductLimbs(x, n).hi) + 2 * LimbBits - 53)

\* Math.floor(x) for a double x >= 0 whose scale is at least two limbs.
DoubleFloor(x) == x.hi \div 2^(x.scale - 2 * LimbBits)

\* gifFrameIndex: i / availableFrames and its product with the number of GIF
\* frames are doubles; 0 / availableFrames is 0.
GifFrameIndex(i, availableFrames, n) ==
  Min(IF i = 0 THEN 0
      ELSE DoubleFloor(DoubleTimes(DoubleQuotient(i, availableFrames), n)),
      n - 1)

handleGifProcessed(closure, gifFrames, total, startFrameId) ==
  LET availableFrames ==
        AvailableFrames(startFrameId, AudioFramesForGif(total), Len(closure))
  IN [k \in 1..Len(closure) |->
        IF k - 1 >= startFrameId /\ k - 1 < startFrameId + availableFrames
        THEN [closure[k] EXCEPT !.image =
                gifFrames[GifFrameIndex(k - 1 - startFrameId, availableFrames,
                                        Len(gifFrames)) + 1]]
        ELSE closure[k]]

(***************************************************************************)
(* handleFrameDrop: a file dropped on slot frameId.  A still image starts  *)
(* a FileReader, a GIF starts processGifForFrame; both finish later, in a  *)
(* callback that still holds the frames of the render the drop happened in.*)
(***************************************************************************)
Op(kind, frameId, images, total, closure) ==
  [kind |-> kind, frameId |-> frameId, images |-> images, total |-> total,
   closure |-> closure]

GifFrames(n) == [j \in 1..n |-> Img("gif", j - 1, audioFile)]

handleFrameDropImage(frameId, k) ==
  /\ frameId \in 0..(Len(frames) - 1)
  /\ pending' = pending \cup
       {Op("image", frameId, <<Img("img", k, audioFile)>>, Time(0), frames)}
  /\ UNCHANGED <<exportVars, lastSelectedFrame, frames, selectedFrame, isPlaying, duration, currentTime,
                 isWaveformReady, audioFile, audioDuration>>

handleFrameDropGif(frameId, n, total) ==
  /\ frameId \in 0..(Len(frames) - 1)
  /\ pending' = pending \cup {Op("gif", frameId, GifFrames(n), total, frames)}
  /\ UNCHANGED <<exportVars, lastSelectedFrame, frames, selectedFrame, isPlaying, duration, currentTime,
                 isWaveformReady, audioFile, audioDuration>>

\* reader.onload of a dropped still image.
readerOnload(op) ==
  /\ op \in pending
  /\ op.kind = "image"
  /\ frames' = handleImageUpload(frames, op.closure, op.images[1], op.frameId)
  /\ pending' = pending \ {op}
  /\ UNCHANGED <<exportVars, lastSelectedFrame, selectedFrame, isPlaying, duration, currentTime, isWaveformReady,
                 audioFile, audioDuration>>

(***************************************************************************)
(* The end of processGifForFrame: handleImageUpload(frameImages[0],        *)
(* frameId), then handleGifProcessed.  Both call setFrames with a value    *)
(* computed from the same closure; the second call is the one that stays.  *)
(***************************************************************************)
processGifForFrame(op) ==
  /\ op \in pending
  /\ op.kind = "gif"
  /\ LET setFramesCalls ==
           <<handleImageUpload(frames, op.closure, op.images[1], op.frameId),
             handleGifProcessed(op.closure, op.images, op.total, op.frameId)>>
     IN frames' = setFramesCalls[Len(setFramesCalls)]
  /\ pending' = pending \ {op}
  /\ UNCHANGED <<exportVars, lastSelectedFrame, selectedFrame, isPlaying, duration, currentTime, isWaveformReady,
                 audioFile, audioDuration>>

(***************************************************************************)
(* FrameEditor.handleRemoveImage: onImageUpload('') on the selected slot.  *)
(* The editor is rendered while not playing; the button, when the slot     *)
(* holds an image.  It runs in the current render.                         *)
(***************************************************************************)
handleRemoveImage ==
  /\ ~isPlaying
  /\ selectedFrame # Null
  /\ selectedFrame < Len(frames)
  /\ Truthy(frames[selectedFrame + 1].image)
  /\ frames' = handleImageUpload(frames, frames, EmptyUrl, selectedFrame)
  /\ UNCHANGED <<exportVars, lastSelectedFrame, selectedFrame, isPlaying, duration, currentTime, isWaveformReady,
                 audioFile, audioDuration, pending>>

(***************************************************************************)
(* FrameEditor, rendered for the selected slot while not playing; its      *)
(* onImageUpload is handleImageUpload(image) with frameId = selectedFrame  *)
(* of the render.  handleImageFile starts a FileReader, whose onload calls *)
(* onImageUpload.                                                          *)
(***************************************************************************)
handleImageFile(k) ==
  /\ ~isPlaying
  /\ selectedFrame \in 0..(Len(frames) - 1)
  /\ Cardinality(pending) < MaxPending
  /\ pending' = pending \cup
       {Op("image", selectedFrame, <<Img("img", k, audioFile)>>, Time(0), frames)}
  /\ UNCHANGED <<exportVars, lastSelectedFrame, frames, selectedFrame, isPlaying, duration, currentTime,
                 isWaveformReady, audioFile, audioDuration>>

(***************************************************************************)
(* FrameEditor.processGif: decode, then onImageUpload(frameImages[0]) and  *)
(* onGifProcessed(frameImages, frame.id, frameDelays).  onGifProcessed is  *)
(* handleGifProcessed, which reads gifInfo.frames.length of the array it   *)
(* is handed and throws before it sets the frames; processGif catches.     *)
(***************************************************************************)
processGif(n) ==
  /\ ~isPlaying
  /\ selectedFrame \in 0..(Len(frames) - 1)
  /\ Cardinality(pending) < MaxPending
  /\ pending' = pending \cup {Op("editorGif", selectedFrame, GifFrames(n), Time(0), frames)}
  /\ UNCHANGED <<exportVars, lastSelectedFrame, frames, selectedFrame, isPlaying, duration, currentTime,
                 isWaveformReady, audioFile, audioDuration>>

processGifDecoded(op) ==
  /\ op \in pending
  /\ op.kind = "editorGif"
  /\ frames' = handleImageUpload(frames, op.closure, op.images[1], op.frameId)
  /\ pending' = pending \ {op}
  /\ UNCHANGED <<exportVars, lastSelectedFrame, selectedFrame, isPlaying, duration, currentTime, isWaveformReady,
                 audioFile, audioDuration>>

GifTotals == {Time(m) : m \in 0..MaxGifNum}

Next ==
  \/ handleReady
  \/ changeAudioFile
  \/ handlePlay
  \/ handlePause
  \/ handleFinish
  \/ \E t \in ClockTimes : handleAudioProcess(t)
  \/ \E t \in ClockTimes : updateOnSeek(t)
  \/ \E t \in ClockTimes : handleWaveformClick(t)
  \/ \E frameId \in 0..(Len(frames) - 1) : handleFrameClick(frameId)
  \/ /\ Cardinality(pending) < MaxPending
     /\ \E frameId \in 0..(Len(frames) - 1), k \in 1..MaxImage :
          handleFrameDropImage(frameId, k)
  \/ /\ Cardinality(pending) < MaxPending
     /\ \E frameId \in 0..(Len(frames) - 1), n \in 1..MaxGifFrames, total \in GifTotals :
          handleFrameDropGif(frameId, n, total)
  \/ \E op \in pending : readerOnload(op)
  \/ \E op \in pending : processGifForFrame(op)
  \/ \E k \in 1..MaxImage : handleImageFile(k)
  \/ \E n \in 1..MaxGifFrames : processGif(n)
  \/ \E op \in pending : processGifDecoded(op)
  \/ handleRemoveImage

Spec == Init /\ [][Next]_vars

(***************************************************************************)
(* Files dropped on the slots of a generated, empty timeline while earlier *)
(* reads and decodes are still in flight: up to MaxOverlap of them at once.*)
(***************************************************************************)
MaxOverlap == 2

DropInit ==
  /\ audioDuration \in Durations
  /\ frames = NewFrames(audioDuration)
  /\ selectedFrame = Null
  /\ isPlaying = FALSE
  /\ duration = audioDuration
  /\ currentTime = Time(0)
  /\ isWaveformReady = TRUE
  /\ audioFile = 1
  /\ pending = {}
  /\ lastSelectedFrame = Null
  /\ ExportVarsInit

DropNext ==
  \/ /\ Cardinality(pending) < MaxOverlap
     /\ \E frameId \in 0..(Len(frames) - 1), k \in 1..MaxImage :
          handleFrameDropImage(frameId, k)
  \/ /\ Cardinality(pending) < MaxOverlap
     /\ \E frameId \in 0..(Len(frames) - 1), n \in 1..MaxGifFrames, total \in GifTotals :
          handleFrameDropGif(frameId, n, total)
  \/ \E op \in pending : readerOnload(op)
  \/ \E op \in pending : processGifForFrame(op)

DropSpec == DropInit /\ [][DropNext]_vars

(***************************************************************************)
(* togglePlayPause, the Play/Pause button: on a ready instance it stores   *)
(* the selected slot in lastSelectedFrame before it starts playback, then  *)
(* calls playPause(), whose play or pause event sets isPlaying.            *)
(***************************************************************************)
togglePlayPause ==
  /\ isWaveformReady
  /\ isPlaying' = ~isPlaying
  /\ lastSelectedFrame' = IF ~isPlaying /\ selectedFrame # Null THEN selectedFrame
                          ELSE lastSelectedFrame
  /\ UNCHANGED <<exportVars, frames, selectedFrame, duration, currentTime, isWaveformReady,
                 audioFile, audioDuration, pending>>

(***************************************************************************)
(* The Stop button and "Play from Selected Frame".                         *)
(*                                                                         *)
(* handleStop stores the selected slot in lastSelectedFrame and calls      *)
(* wavesurfer.stop(): on a loaded instance playback pauses and the clock   *)
(* is moved to 0, which runs handlePause and updateOnSeek.  When the       *)
(* lastSelectedFrame of the render is a slot, a timeout of 50 ms is set    *)
(* that holds the render's lastSelectedFrame, frames and duration;         *)
(* otherwise slot 0 is selected.                                           *)
(***************************************************************************)
handleStop ==
  /\ lastSelectedFrame' = IF selectedFrame # Null THEN selectedFrame ELSE lastSelectedFrame
  /\ isPlaying' = (isPlaying /\ ~isWaveformReady)
  /\ currentTime' = IF isWaveformReady THEN Time(0) ELSE currentTime
  /\ IF lastSelectedFrame # Null
     THEN /\ selectedFrame' = IF isWaveformReady
                              THEN SelectForTime(Time(0), frames, selectedFrame)
                              ELSE selectedFrame
          /\ pending' = pending \cup
               {Op("stopTimeout", lastSelectedFrame, <<>>, duration, frames)}
     ELSE /\ selectedFrame' = 0
          /\ UNCHANGED pending
  /\ UNCHANGED <<exportVars, frames, duration, isWaveformReady, audioFile, audioDuration>>

(***************************************************************************)
(* The timeout of handleStop: setSelectedFrame(lastSelectedFrame), then    *)
(* seekTo(frames[lastSelectedFrame].time / duration) with the values of    *)
(* the render that set it.  Reading .time of a slot the timeline does not  *)
(* have throws after the selection was set.  seekTo acts as in             *)
(* handleFrameClick.                                                       *)
(***************************************************************************)
stopTimeout(op) ==
  /\ op \in pending
  /\ op.kind = "stopTimeout"
  /\ IF op.frameId < Len(op.closure)
        /\ isWaveformReady
        /\ op.total[1] > 0
        /\ RatLeq(op.closure[op.frameId + 1].time, op.total)
     THEN /\ currentTime' = op.closure[op.frameId + 1].time
          /\ selectedFrame' =
               SelectForTime(op.closure[op.frameId + 1].time, frames, op.frameId)
     ELSE /\ selectedFrame' = op.frameId
          /\ UNCHANGED currentTime
  /\ pending' = pending \ {op}
  /\ UNCHANGED <<exportVars, lastSelectedFrame, frames, isPlaying, duration,
                 isWaveformReady, audioFile, audioDuration>>

(***************************************************************************)
(* playFromSelectedFrame: the button is rendered while a slot is selected  *)
(* and nothing plays.  It stores the selection, seeks to the slot's time   *)
(* and plays.  With a selection the timeline does not hold, reading .time  *)
(* throws after setLastSelectedFrame.                                      *)
(***************************************************************************)
playFromSelectedFrame ==
  /\ selectedFrame # Null
  /\ ~isPlaying
  /\ isWaveformReady
  /\ lastSelectedFrame' = selectedFrame
  /\ IF selectedFrame < Len(frames)
     THEN /\ isPlaying' = TRUE
          /\ IF duration[1] > 0 /\ RatLeq(frames[selectedFrame + 1].time, duration)
             THEN currentTime' = frames[selectedFrame + 1].time
             ELSE UNCHANGED currentTime
     ELSE UNCHANGED <<isPlaying, currentTime>>
  /\ UNCHANGED <<exportVars, frames, selectedFrame, duration, isWaveformReady, audioFile,
                 audioDuration, pending>>

StopNext ==
  \/ handleReady
  \/ togglePlayPause
  \/ handleFinish
  \/ \E t \in ClockTimes : handleAudioProcess(t)
  \/ \E t \in ClockTimes : updateOnSeek(t)
  \/ \E frameId \in 0..(Len(frames) - 1) : handleFrameClick(frameId)
  \/ playFromSelectedFrame
  \/ handleStop
  \/ \E op \in pending : stopTimeout(op)

StopSpec == Init /\ [][StopNext]_vars

(***************************************************************************)
(* The worker-backed export modal.  Its frames prop is the timeline; the   *)
(* other player state does not take part.                                  *)
(***************************************************************************)
Slot(i, image) == [id |-> i - 1, time |-> <<i - 1, FPS>>, image |-> image]

ExportImages == {NullImage, EmptyUrl, Img("img", 1, 1)}

ExportTimelines ==
  UNION {{[i \in 1..n |-> Slot(i, images[i])] : images \in [1..n -> ExportImages]} :
           n \in 0..MaxExportLen}

ExportInit ==
  /\ frames \in ExportTimelines
  /\ selectedFrame = Null
  /\ isPlaying = FALSE
  /\ duration = Time(0)
  /\ currentTime = Time(0)
  /\ isWaveformReady = FALSE
  /\ audioFile = 1
  /\ audioDuration = Time(0)
  /\ pending = {}
  /\ lastSelectedFrame = Null
  /\ ExportVarsInit

\* handleExport's own test: no slot, or no slot with a truthy image.
NoFramesLengthOnly(frs) == Len(frs) = 0

NoFramesToExport(frs) ==
  Len(frs) = 0 \/ \A i \in 1..Len(frs) : ~Truthy(frs[i].image)

\* The worker's filter: frames.filter(frame => frame.image).
FramesToExport(frs) == SelectSeq(frs, LAMBDA f : Truthy(f.image))

(***************************************************************************)
(* The parent opens the modal: the effect sets isPyodideLoading and waits  *)
(* for ensureInitialized(), which is settled at once when the service's    *)
(* initialization already resolved or rejected.                            *)
(***************************************************************************)
openModal ==
  /\ ~isOpen
  /\ isOpen' = TRUE
  /\ isPyodideLoading' = (initPromise = "pending")
  /\ alertMsg' = IF initPromise = "rejected" THEN InitFailedAlert ELSE alertMsg
  /\ UNCHANGED <<playerVars, inProcessVars, isExporting, progress, exportOptions, exportPc,
                 svcIsInitialized, initPromise, listeners, workerInbox,
                 workerIsInitialized, toMain, downloads, linkDownload, lifecycleVars>>

\* onClose by the close button or a click outside: not while exporting.
closeModal ==
  /\ isOpen
  /\ ~isExporting
  /\ isOpen' = FALSE
  /\ UNCHANGED <<playerVars, inProcessVars, isExporting, progress, isPyodideLoading, exportOptions,
                 alertMsg, exportPc, svcIsInitialized, initPromise, listeners,
                 workerInbox, workerIsInitialized, toMain, downloads, linkDownload, lifecycleVars>>

\* The format buttons are rendered once loading is over, disabled while exporting.
handleFormatChange(format) ==
  /\ isOpen
  /\ ~isPyodideLoading
  /\ ~isExporting
  /\ exportOptions' =
       [exportOptions EXCEPT
          !.format = format,
          !.includeAudio = IF format \in {"mp4", "webm"} THEN @ ELSE FALSE]
  /\ UNCHANGED <<playerVars, inProcessVars, isOpen, isExporting, progress, isPyodideLoading, alertMsg,
                 exportPc, svcIsInitialized, initPromise, listeners, workerInbox,
                 workerIsInitialized, toMain, downloads, linkDownload, lifecycleVars>>

\* The audio checkbox is rendered for the video formats only.
handleAudioChange(checked) ==
  /\ isOpen
  /\ ~isPyodideLoading
  /\ ~isExporting
  /\ exportOptions.format \in {"mp4", "webm"}
  /\ exportOptions' = [exportOptions EXCEPT !.includeAudio = checked]
  /\ UNCHANGED <<playerVars, inProcessVars, isOpen, isExporting, progress, isPyodideLoading, alertMsg,
                 exportPc, svcIsInitialized, initPromise, listeners, workerInbox,
                 workerIsInitialized, toMain, downloads, linkDownload, lifecycleVars>>

\* The other checkbox is rendered while audio is included, for the video formats.
handleEntireSoundtrackChange(checked) ==
  /\ isOpen
  /\ ~isPyodideLoading
  /\ ~isExporting
  /\ exportOptions.format \in {"mp4", "webm"}
  /\ exportOptions.includeAudio
  /\ audioFile # Null
  /\ exportOptions' = [exportOptions EXCEPT !.useEntireSoundtrack = checked]
  /\ UNCHANGED <<playerVars, inProcessVars, isOpen, isExporting, progress, isPyodideLoading, alertMsg,
                 exportPc, svcIsInitialized, initPromise, listeners, workerInbox,
                 workerIsInitialized, toMain, downloads, linkDownload, lifecycleVars>>

(***************************************************************************)
(* parseInt(string): an optional sign, then the longest run of decimal     *)
(* digits; NaN when there is no digit.  A string is a sequence of          *)
(* characters here.                                                        *)
(***************************************************************************)
Digits == <<"0", "1", "2", "3", "4", "5", "6", "7", "8", "9">>

\* (n).toString() of a natural number.
RECURSIVE DecimalString(_)
DecimalString(n) ==
  IF n < 10 THEN Digits[n + 1] ELSE DecimalString(n \div 10) \o Digits[(n % 10) + 1]

\* The most Date.now() returns, in ms.
MaxNow == 1

\* link.download of downloadResult, and of the in-process GIF and video backends.
DownloadName(now, extension) == "animation-" \o DecimalString(now) \o "." \o extension

\* link.download of exportAsPngSequence.
FramesArchiveName(now) == "animation-frames-" \o DecimalString(now) \o ".zip"

IsDigit(ch) == \E d \in 1..10 : Digits[d] = ch

DigitValue(ch) == (CHOOSE d \in 1..10 : Digits[d] = ch) - 1

RECURSIVE LeadingDigits(_)
LeadingDigits(str) ==
  IF Len(str) = 0 \/ ~IsDigit(Head(str)) THEN <<>>
  ELSE <<Head(str)>> \o LeadingDigits(Tail(str))

RECURSIVE DecimalValue(_)
DecimalValue(digits) ==
  IF Len(digits) = 0 THEN 0
  ELSE DecimalValue(SubSeq(digits, 1, Len(digits) - 1)) * 10 + DigitValue(digits[Len(digits)])

ParseInt(str) ==
  LET signed == Len(str) > 0 /\ Head(str) \in {"-", "+"}
      digits == LeadingDigits(IF signed THEN Tail(str) ELSE str)
  IN [isNaN |-> Len(digits) = 0,
      value |-> IF signed /\ Head(str) = "-" THEN 0 - DecimalValue(digits)
                ELSE DecimalValue(digits)]

(***************************************************************************)
(* handleQualityChange: the value of the range input, which the browser    *)
(* keeps a decimal integer between its min, 1, and its max, 100.           *)
(***************************************************************************)
RangeValues == {<<"1">>, <<"5", "0">>, <<"1", "0", "0">>}

handleQualityChange(value) ==
  /\ isOpen
  /\ ~isPyodideLoading
  /\ ~isExporting
  /\ exportOptions' = [exportOptions EXCEPT !.quality = ParseInt(value).value]
  /\ UNCHANGED <<playerVars, inProcessVars, isOpen, isExporting, progress, isPyodideLoading, alertMsg,
                 exportPc, svcIsInitialized, initPromise, listeners, workerInbox,
                 workerIsInitialized, toMain, downloads, linkDownload, lifecycleVars>>

(***************************************************************************)
(* handleResolutionChange(dimension, value): the value of a number input,  *)
(* which is '' unless the text typed is a floating-point number.           *)
(***************************************************************************)
NumberValues ==
  {<<>>, <<"0">>, <<"-", "3">>, <<"0", ".", "5">>, <<"1", ".", "5">>, <<"2", "e", "3">>,
   <<"3", "2", "0">>}

\* handleResolutionChange testing !isNaN(numValue) only.
handleResolutionChangeAnySign(dimension, value) ==
  /\ isOpen
  /\ ~isPyodideLoading
  /\ ~isExporting
  /\ LET numValue == ParseInt(value)
     IN IF ~numValue.isNaN
        THEN exportOptions' = [exportOptions EXCEPT !.resolution[dimension] = numValue.value]
        ELSE UNCHANGED exportOptions
  /\ UNCHANGED <<playerVars, inProcessVars, isOpen, isExporting, progress, isPyodideLoading, alertMsg,
                 exportPc, svcIsInitialized, initPromise, listeners, workerInbox,
                 workerIsInitialized, toMain, downloads, linkDownload, lifecycleVars>>

handleResolutionChange(dimension, value) ==
  /\ isOpen
  /\ ~isPyodideLoading
  /\ ~isExporting
  /\ LET numValue == ParseInt(value)
     IN IF ~numValue.isNaN /\ numValue.value > 0
        THEN exportOptions' = [exportOptions EXCEPT !.resolution[dimension] = numValue.value]
        ELSE UNCHANGED exportOptions
  /\ UNCHANGED <<playerVars, inProcessVars, isOpen, isExporting, progress, isPyodideLoading, alertMsg,
                 exportPc, svcIsInitialized, initPromise, listeners, workerInbox,
                 workerIsInitialized, toMain, downloads, linkDownload, lifecycleVars>>

\* handleExport with an Export button that is never disabled while exporting.
handleExportNeverDisabled ==
  /\ isOpen
  /\ ~isPyodideLoading
  /\ downloads < MaxDownloads
  /\ IF NoFramesToExport(frames)
     THEN /\ alertMsg' = NoFramesAlert
          /\ UNCHANGED <<isExporting, progress, exportPc>>
     ELSE /\ isExporting' = TRUE
          /\ progress' = 0
          /\ exportPc' = "awaitInit"
          /\ UNCHANGED alertMsg
  /\ UNCHANGED <<playerVars, inProcessVars, isOpen, isPyodideLoading, exportOptions, svcIsInitialized,
                 initPromise, listeners, workerInbox, workerIsInitialized, toMain,
                 downloads, linkDownload, lifecycleVars>>

(***************************************************************************)
(* handleExport, up to its await.  The Export button is disabled while     *)
(* exporting or loading.  Its disabled attribute also repeats the          *)
(* handler's own test for populated frames; the handler is modelled with   *)
(* the test it makes itself, for every timeline it can be handed.          *)
(***************************************************************************)
handleExport ==
  /\ isOpen
  /\ ~isExporting
  /\ ~isPyodideLoading
  /\ exportPc = "idle"
  /\ downloads < MaxDownloads
  /\ IF NoFramesToExport(frames)
     THEN /\ alertMsg' = NoFramesAlert
          /\ UNCHANGED <<isExporting, progress, exportPc>>
     ELSE /\ isExporting' = TRUE
          /\ progress' = 0
          /\ exportPc' = "awaitInit"
          /\ UNCHANGED alertMsg
  /\ UNCHANGED <<playerVars, inProcessVars, isOpen, isPyodideLoading, exportOptions, svcIsInitialized,
                 initPromise, listeners, workerInbox, workerIsInitialized, toMain,
                 downloads, linkDownload, lifecycleVars>>

\* generateMovie posting generate without awaiting ensureInitialized().
generateMovieUnawaited ==
  /\ exportPc = "awaitInit"
  /\ listeners' = listeners \cup {"generate"}
  /\ workerInbox' =
       Append(workerInbox, Request("generate", exportOptions.format, frames))
  /\ exportPc' = "awaitResult"
  /\ UNCHANGED <<playerVars, inProcessVars, isOpen, isExporting, alertMsg, progress,
                 isPyodideLoading, exportOptions, svcIsInitialized, initPromise,
                 workerIsInitialized, toMain, downloads, linkDownload, lifecycleVars>>

(***************************************************************************)
(* PythonExportService.generateMovie after `await ensureInitialized()`:    *)
(* the rejected initialization surfaces in handleExport's catch and        *)
(* finally; otherwise, for a video format with audio included, it waits    *)
(* for audioFile.arrayBuffer(), and then it registers a message handler    *)
(* and posts generate.  A failed read is caught and logged: generate is    *)
(* posted all the same.                                                    *)
(***************************************************************************)
NeedsAudioData ==
  /\ exportOptions.includeAudio
  /\ audioFile # Null
  /\ exportOptions.format \in {"mp4", "webm"}

generateMovie ==
  /\ exportPc = "awaitInit"
  /\ initPromise # "pending"
  /\ IF svcIsInitialized
     THEN IF NeedsAudioData
          THEN /\ exportPc' = "awaitAudio"
               /\ UNCHANGED <<listeners, workerInbox, isExporting, alertMsg>>
          ELSE /\ listeners' = listeners \cup {"generate"}
               /\ workerInbox' =
                    Append(workerInbox, Request("generate", exportOptions.format, frames))
               /\ exportPc' = "awaitResult"
               /\ UNCHANGED <<isExporting, alertMsg>>
     ELSE /\ alertMsg' = ExportFailedAlert
          /\ isExporting' = FALSE
          /\ exportPc' = "idle"
          /\ UNCHANGED <<listeners, workerInbox>>
  /\ UNCHANGED <<playerVars, inProcessVars, isOpen, progress, isPyodideLoading, exportOptions,
                 svcIsInitialized, initPromise, workerIsInitialized, toMain, downloads, linkDownload,
                 lifecycleVars>>

\* audioFile.arrayBuffer() has settled: generateMovie goes on to post generate.
audioConverted ==
  /\ exportPc = "awaitAudio"
  /\ listeners' = listeners \cup {"generate"}
  /\ workerInbox' =
       Append(workerInbox, Request("generate", exportOptions.format, frames))
  /\ exportPc' = "awaitResult"
  /\ UNCHANGED <<playerVars, inProcessVars, isOpen, isExporting, alertMsg, progress,
                 isPyodideLoading, exportOptions, svcIsInitialized, initPromise,
                 workerIsInitialized, toMain, downloads, linkDownload, lifecycleVars>>

\* workerInit with initPyodide lacking `if (isInitialized) return`: every init loads.
workerInitReloads(loads) ==
  /\ Len(workerInbox) > 0
  /\ Head(workerInbox).type = "init"
  /\ workerInbox' = Tail(workerInbox)
  /\ workerIsInitialized' = loads
  /\ toMain' = Append(toMain,
       IF workerIsInitialized' THEN Response("initialized", "", "")
       ELSE Response("error", "", LoadError))
  /\ UNCHANGED <<playerVars, inProcessVars, isOpen, isExporting, progress, isPyodideLoading,
                 exportOptions, alertMsg, exportPc, svcIsInitialized, initPromise,
                 listeners, downloads, linkDownload, lifecycleVars>>

\* workerInit without the try/catch around its body: a failed load posts nothing.
workerInitUncaught(loads) ==
  /\ Len(workerInbox) > 0
  /\ Head(workerInbox).type = "init"
  /\ workerInbox' = Tail(workerInbox)
  /\ workerIsInitialized' = (workerIsInitialized \/ loads)
  /\ toMain' = IF workerIsInitialized' THEN Append(toMain, Response("initialized", "", ""))
               ELSE toMain
  /\ UNCHANGED <<playerVars, inProcessVars, isOpen, isExporting, progress, isPyodideLoading,
                 exportOptions, alertMsg, exportPc, svcIsInitialized, initPromise,
                 listeners, downloads, linkDownload, lifecycleVars>>

(***************************************************************************)
(* The worker's onmessage.  loads: whether loading the runtime succeeds.   *)
(***************************************************************************)
workerInit(loads) ==
  /\ Len(workerInbox) > 0
  /\ Head(workerInbox).type = "init"
  /\ workerInbox' = Tail(workerInbox)
  /\ workerIsInitialized' = (workerIsInitialized \/ loads)
  /\ toMain' = Append(toMain,
       IF workerIsInitialized' THEN Response("initialized", "", "")
       ELSE Response("error", "", LoadError))
  /\ UNCHANGED <<playerVars, inProcessVars, isOpen, isExporting, progress, isPyodideLoading,
                 exportOptions, alertMsg, exportPc, svcIsInitialized, initPromise,
                 listeners, downloads, linkDownload, lifecycleVars>>

\* GenerateResponse returning the video result instead of throwing result.error.
GenerateResponseVideo(data) ==
  IF Len(FramesToExport(data.frames)) = 0 THEN Response("error", "", NoFramesError)
  ELSE IF data.format = "gif" THEN Response("complete", "gif", "")
  ELSE IF data.format = "png" THEN Response("complete", "zip", "")
  ELSE Response("complete", data.format, "")

\* The worker's generateMovie(data): the message it answers with.
GenerateResponse(data) ==
  IF Len(FramesToExport(data.frames)) = 0 THEN Response("error", "", NoFramesError)
  ELSE IF data.format = "gif" THEN Response("complete", "gif", "")
  ELSE IF data.format = "png" THEN Response("complete", "zip", "")
  ELSE Response("error", "", VideoError)

workerGenerate(loads) ==
  /\ Len(workerInbox) > 0
  /\ Head(workerInbox).type = "generate"
  /\ workerInbox' = Tail(workerInbox)
  /\ workerIsInitialized' = (workerIsInitialized \/ loads)
  /\ toMain' = Append(toMain,
       IF workerIsInitialized' THEN GenerateResponse(Head(workerInbox))
       ELSE Response("error", "", LoadError))
  /\ UNCHANGED <<playerVars, inProcessVars, isOpen, isExporting, progress, isPyodideLoading,
                 exportOptions, alertMsg, exportPc, svcIsInitialized, initPromise,
                 listeners, downloads, linkDownload, lifecycleVars>>

(***************************************************************************)
(* A message event on the main thread.  Every registered handler sees it:  *)
(* the one of initWorker settles the initialization (and with it the       *)
(* modal's wait), the one of generateMovie settles the export, whose       *)
(* handleExport then downloads the result or alerts, and clears the flag.  *)
(***************************************************************************)
deliverMessage ==
  /\ Len(toMain) > 0
  /\ LET m == Head(toMain)
         initResolves == "init" \in listeners /\ m.type = "initialized"
         initRejects == "init" \in listeners /\ m.type = "error" /\ ~svcIsInitialized
         resolves == "generate" \in listeners /\ m.type = "complete"
         rejects == "generate" \in listeners /\ m.type = "error"
     IN /\ toMain' = Tail(toMain)
        /\ svcIsInitialized' = (svcIsInitialized \/ initResolves)
        /\ initPromise' = IF initResolves THEN "resolved"
                          ELSE IF initRejects THEN "rejected" ELSE initPromise
        /\ listeners' = (listeners \ (IF initResolves \/ initRejects THEN {"init"} ELSE {}))
                          \ (IF resolves \/ rejects THEN {"generate"} ELSE {})
        /\ isPyodideLoading' = (isPyodideLoading /\ ~(initResolves \/ initRejects))
        /\ downloads' = IF resolves THEN downloads + 1 ELSE downloads
        /\ \E now \in 0..MaxNow :
             linkDownload' = IF resolves THEN DownloadName(now, m.extension)
                             ELSE linkDownload
        /\ progress' = IF resolves THEN 100 ELSE progress
        /\ isExporting' = (isExporting /\ ~(resolves \/ rejects))
        /\ exportPc' = IF resolves \/ rejects THEN "idle" ELSE exportPc
        /\ alertMsg' = IF rejects THEN ExportFailedAlert
                       ELSE IF initRejects /\ isPyodideLoading THEN InitFailedAlert
                       ELSE alertMsg
  /\ UNCHANGED <<playerVars, inProcessVars, isOpen, exportOptions, workerInbox, workerIsInitialized,
                 lifecycleVars>>

ExportFormats == {"gif", "mp4", "png", "webm"}

ExportNext ==
  \/ openModal
  \/ closeModal
  \/ \E format \in ExportFormats : handleFormatChange(format)
  \/ \E checked \in BOOLEAN : handleAudioChange(checked)
  \/ handleExport
  \/ generateMovie
  \/ audioConverted
  \/ \E loads \in BOOLEAN : workerInit(loads)
  \/ \E loads \in BOOLEAN : workerGenerate(loads)
  \/ deliverMessage

ExportSpec == ExportInit /\ [][ExportNext]_vars

(***************************************************************************)
(* The option controls of the modal on their own, with an empty timeline:  *)
(* they are rendered once the modal is open and the runtime has loaded or  *)
(* failed to.                                                              *)
(***************************************************************************)
OptionsInit == ExportInit /\ frames = <<>>

OptionsNext ==
  \/ openModal
  \/ closeModal
  \/ \E loads \in BOOLEAN : workerInit(loads)
  \/ deliverMessage
  \/ \E format \in ExportFormats : handleFormatChange(format)
  \/ \E checked \in BOOLEAN : handleAudioChange(checked)
  \/ \E checked \in BOOLEAN : handleEntireSoundtrackChange(checked)
  \/ \E value \in RangeValues : handleQualityChange(value)
  \/ \E dimension \in {"width", "height"}, value \in NumberValues :
       handleResolutionChange(dimension, value)

OptionsSpec == OptionsInit /\ [][OptionsNext]_vars

(***************************************************************************)
(* The worker on its own: its message handler, given any requests.         *)
(***************************************************************************)
MaxRequests == 2

MaxWorkerFrames == 1

WorkerTimelines ==
  UNION {{[i \in 1..n |-> Slot(i, images[i])] : images \in [1..n -> ExportImages]} :
           n \in 0..MaxWorkerFrames}

Requests ==
  {InitRequest} \cup
    {Request("generate", format, frs) : format \in ExportFormats, frs \in WorkerTimelines}

RequestQueues == UNION {[1..n -> Requests] : n \in 0..MaxRequests}

WorkerInit ==
  /\ frames = <<>>
  /\ selectedFrame = Null
  /\ isPlaying = FALSE
  /\ duration = Time(0)
  /\ currentTime = Time(0)
  /\ isWaveformReady = FALSE
  /\ audioFile = 1
  /\ audioDuration = Time(0)
  /\ pending = {}
  /\ lastSelectedFrame = Null
  /\ isOpen = FALSE
  /\ isExporting = FALSE
  /\ progress = 0
  /\ isPyodideLoading = FALSE
  /\ exportOptions = InitialExportOptions
  /\ alertMsg = ""
  /\ exportPc = "idle"
  /\ svcIsInitialized = FALSE
  /\ initPromise = "pending"
  /\ listeners = {}
  /\ workerInbox \in RequestQueues
  /\ workerIsInitialized = FALSE
  /\ toMain = <<>>
  /\ downloads = 0
  /\ linkDownload = ""
  /\ worker = 1
  /\ workersCreated = 1
  /\ workerRunning = <<>>
  /\ pyodideLoads = 0
  /\ videoExport = NoRecording
  /\ exportStatus = ""
  /\ statusTimers = 0
  /\ calls = <<>>

WorkerNext ==
  \/ \E loads \in BOOLEAN : workerInit(loads)
  \/ \E loads \in BOOLEAN : workerGenerate(loads)

WorkerSpec == WorkerInit /\ [][WorkerNext]_vars

(***************************************************************************)
(* The worker's onmessage step by step.  It is an async function: a call   *)
(* runs until its first await that has to wait, and the messages that      *)
(* arrive meanwhile start further calls.  initPyodide tests isInitialized,  *)
(* calls loadPyodide and sets isInitialized only after its last await;     *)
(* generateMovie throws at once without populated frames and otherwise     *)
(* waits for the Python code.                                              *)
(***************************************************************************)
Running(req, pc) == [req |-> req, pc |-> pc]

Without(running, h) == [k \in 1..(Len(running) - 1) |-> running[IF k < h THEN k ELSE k + 1]]

\* generateMovie(data) is called: it answers at once or the call waits for it.
StartGenerate(running, req) ==
  IF Len(FramesToExport(req.frames)) = 0
  THEN /\ workerRunning' = running
       /\ toMain' = Append(toMain, GenerateResponse(req))
  ELSE /\ workerRunning' = Append(running, Running(req, "generating"))
       /\ UNCHANGED toMain

\* A message event in the worker: onmessage up to its first wait.
workerOnmessage ==
  /\ Len(workerInbox) > 0
  /\ workerInbox' = Tail(workerInbox)
  /\ LET req == Head(workerInbox)
     IN IF ~workerIsInitialized
        THEN /\ pyodideLoads' = pyodideLoads + 1
             /\ workerRunning' = Append(workerRunning, Running(req, "loading"))
             /\ UNCHANGED toMain
        ELSE /\ UNCHANGED pyodideLoads
             /\ IF req.type = "init"
                THEN /\ toMain' = Append(toMain, Response("initialized", "", ""))
                     /\ UNCHANGED workerRunning
                ELSE StartGenerate(workerRunning, req)
  /\ UNCHANGED <<playerVars, inProcessVars, worker, workersCreated, videoExport, isOpen, isExporting, progress,
                 isPyodideLoading, exportOptions, alertMsg, exportPc, svcIsInitialized,
                 initPromise, listeners, workerIsInitialized, downloads, linkDownload>>

\* The awaits of initPyodide are over for call h: the runtime loaded, or a step
\* threw and the catch block of onmessage answers.
workerLoaded(h, loads) ==
  /\ h \in 1..Len(workerRunning)
  /\ workerRunning[h].pc = "loading"
  /\ workerIsInitialized' = (workerIsInitialized \/ loads)
  /\ LET req == workerRunning[h].req
         rest == Without(workerRunning, h)
     IN IF ~loads
        THEN /\ toMain' = Append(toMain, Response("error", "", LoadError))
             /\ workerRunning' = rest
        ELSE IF req.type = "init"
        THEN /\ toMain' = Append(toMain, Response("initialized", "", ""))
             /\ workerRunning' = rest
        ELSE StartGenerate(rest, req)
  /\ UNCHANGED <<playerVars, inProcessVars, worker, workersCreated, videoExport, pyodideLoads, isOpen, isExporting, progress,
                 isPyodideLoading, exportOptions, alertMsg, exportPc, svcIsInitialized,
                 initPromise, listeners, workerInbox, downloads, linkDownload>>

\* generateMovie of call h returns or throws.
workerGenerated(h) ==
  /\ h \in 1..Len(workerRunning)
  /\ workerRunning[h].pc = "generating"
  /\ toMain' = Append(toMain, GenerateResponse(workerRunning[h].req))
  /\ workerRunning' = Without(workerRunning, h)
  /\ UNCHANGED <<playerVars, inProcessVars, worker, workersCreated, videoExport, pyodideLoads, isOpen, isExporting, progress,
                 isPyodideLoading, exportOptions, alertMsg, exportPc, svcIsInitialized,
                 initPromise, listeners, workerInbox, workerIsInitialized, downloads,
                 linkDownload>>

WorkerStepsNext ==
  \/ workerOnmessage
  \/ \E h \in 1..Len(workerRunning), loads \in BOOLEAN : workerLoaded(h, loads)
  \/ \E h \in 1..Len(workerRunning) : workerGenerated(h)

WorkerStepsSpec == WorkerInit /\ [][WorkerStepsNext]_vars

(***************************************************************************)
(* The in-process export modal: handleExport runs one of three backends in *)
(* the page itself.  Each call keeps what its backend closed over:         *)
(*   ids       the slot ids of framesToExport, in timeline order           *)
(*   done      the positions in framesToExport handled so far, in order    *)
(*   errored   the positions whose image fired error                       *)
(*   rendered  how many frames gif.js has encoded                          *)
(*   st        where the backend stands                                    *)
(*   awaited   handleExport is still suspended on the backend's promise    *)
(*   reported  the last value the call passed to setProgress               *)
(*   entries   the files added to the archive                              *)
(*   soundtrack  exportAsVideo holds the capture open for the whole audio  *)
(*   elapsed   clock ticks since startTime, counted while that matters     *)
(*   stops     how often recorder.stop() was called                        *)
(***************************************************************************)
MaxCalls == 2

\* The duration of the decoded audio, in ticks of the clock.
SoundtrackTicks == 2

ExportCompleteStatus == "Export complete!"

VideoCompleteStatus == "Video export complete!"

ImageLoadAlert == "Export failed: Failed to load image for frame"

AudioAlert == "Export failed: Unable to decode audio data"

RecorderAlert == "Export failed: mimeType is not supported"

\* String(id).padStart(4, '0')
RECURSIVE PadStart(_, _, _)
PadStart(str, targetLength, padString) ==
  IF Len(str) >= targetLength THEN str
  ELSE PadStart(padString \o str, targetLength, padString)

FrameFileName(n) == "frame_" \o PadStart(DecimalString(n), 4, "0") \o ".png"

NewCall(format, frs, st, awaited, reported) ==
  [format |-> format,
   ids |-> [i \in 1..Len(FramesToExport(frs)) |-> FramesToExport(frs)[i].id],
   done |-> <<>>, errored |-> {}, rendered |-> 0, st |-> st, awaited |-> awaited,
   reported |-> reported, entries |-> <<>>,
   soundtrack |-> format \in {"mp4", "webm"} /\ exportOptions.useEntireSoundtrack
                    /\ exportOptions.includeAudio /\ audioFile # Null,
   elapsed |-> 0, stops |-> 0]

\* The positions of a call whose image has neither loaded nor failed.
Waiting(call) ==
  {p \in 1..Len(call.ids) : p \notin call.errored /\ \A j \in 1..Len(call.done) : call.done[j] # p}

\* The parent shows the modal.
showModal ==
  /\ ~isOpen
  /\ isOpen' = TRUE
  /\ UNCHANGED <<playerVars, inProcessVars, isExporting, progress, isPyodideLoading,
                 exportOptions, alertMsg, exportPc, svcIsInitialized, initPromise,
                 listeners, workerInbox, workerIsInitialized, toMain, downloads, linkDownload,
                 lifecycleVars>>

(***************************************************************************)
(* handleExport's finally block, which runs however the try block ended.   *)
(***************************************************************************)
Finally ==
  /\ isExporting' = FALSE
  /\ progress' = 100
  /\ exportStatus' = ExportCompleteStatus
  /\ statusTimers' = statusTimers + 1

\* The catch block, then the finally block.
CatchFinally(message) ==
  /\ alertMsg' = message
  /\ Finally

(***************************************************************************)
(* exportAsVideo from `new MediaRecorder` on.  An unsupported mimeType     *)
(* throws; otherwise the recorder starts, drawNextFrame() is called and    *)
(* not awaited, exportAsVideo returns and handleExport reaches finally     *)
(* while the first image loads.                                            *)
(***************************************************************************)
startRecorder(newCalls, supported) ==
  /\ calls' = newCalls
  /\ IF supported
     THEN /\ Finally
          /\ UNCHANGED alertMsg
     ELSE CatchFinally(RecorderAlert)

(***************************************************************************)
(* handleExport up to the first point where it waits for an event.         *)
(*   gif:  suspended on exportAsGif's promise, images loading.             *)
(*   png:  exportAsPngSequence() only starts the image loads and returns;  *)
(*         finally runs in the same turn.                                  *)
(*   mp4, webm: suspended on the audio decode when audio is included,      *)
(*         else as startRecorder.                                          *)
(***************************************************************************)
handleExportInProcess(supported) ==
  /\ isOpen
  /\ ~isExporting
  /\ Len(calls) < MaxCalls
  /\ LET format == exportOptions.format
     IN IF NoFramesToExport(frames)
        THEN /\ alertMsg' = NoFramesAlert
             /\ UNCHANGED <<isExporting, progress, inProcessVars>>
        ELSE IF format = "gif"
        THEN /\ isExporting' = TRUE
             /\ progress' = 0
             /\ exportStatus' = "Generating GIF..."
             /\ calls' = Append(calls, NewCall(format, frames, "loading", TRUE, 0))
             /\ UNCHANGED <<alertMsg, statusTimers>>
        ELSE IF format = "png"
        THEN /\ Finally
             /\ calls' = Append(calls, NewCall(format, frames, "loading", FALSE, 100))
             /\ UNCHANGED alertMsg
        ELSE IF exportOptions.includeAudio /\ audioFile # Null
        THEN /\ isExporting' = TRUE
             /\ progress' = 0
             /\ exportStatus' = "Processing audio..."
             /\ calls' = Append(calls, NewCall(format, frames, "audio", TRUE, 0))
             /\ UNCHANGED <<alertMsg, statusTimers>>
        ELSE startRecorder(
               Append(calls, NewCall(format, frames,
                                     IF supported THEN "recording" ELSE "rejected",
                                     FALSE, 100)),
               supported)
  /\ UNCHANGED <<playerVars, isOpen, isPyodideLoading, exportOptions, exportPc,
                 svcIsInitialized, initPromise, listeners, workerInbox,
                 workerIsInitialized, toMain, downloads, linkDownload, lifecycleVars>>

\* exportAsVideo after `await audioContext.decodeAudioData(...)`.
audioDecoded(c, decoded, supported) ==
  /\ c \in 1..Len(calls)
  /\ calls[c].st = "audio"
  /\ LET call == [calls[c] EXCEPT !.awaited = FALSE, !.reported = 100,
                    !.st = IF decoded /\ supported THEN "recording" ELSE "rejected"]
     IN IF decoded
        THEN startRecorder([calls EXCEPT ![c] = call], supported)
        ELSE /\ CatchFinally(AudioAlert)
             /\ calls' = [calls EXCEPT ![c] = call]
  /\ UNCHANGED <<playerVars, isOpen, isPyodideLoading, exportOptions, exportPc,
                 svcIsInitialized, initPromise, listeners, workerInbox,
                 workerIsInitialized, toMain, downloads, linkDownload, lifecycleVars>>

(***************************************************************************)
(* exportAsGif: img.onload of one frame.  The last image starts the        *)
(* render.  The images of a call that was already rejected still load.     *)
(***************************************************************************)
gifImageOnload(c, p) ==
  /\ c \in 1..Len(calls)
  /\ calls[c].format = "gif"
  /\ p \in Waiting(calls[c])
  /\ LET loadedImages == Len(calls[c].done) + 1
         totalImages == Len(calls[c].ids)
         value == FloorDiv(loadedImages * 50, totalImages)
     IN /\ progress' = value
        /\ calls' = [calls EXCEPT ![c].done = Append(@, p), ![c].reported = value,
                       ![c].st = IF loadedImages = totalImages THEN "rendering" ELSE @]
  /\ UNCHANGED <<playerVars, isOpen, isExporting, isPyodideLoading, exportOptions,
                 alertMsg, exportPc, svcIsInitialized, initPromise, listeners,
                 workerInbox, workerIsInitialized, toMain, downloads, linkDownload, exportStatus,
                 statusTimers, lifecycleVars>>

(***************************************************************************)
(* exportAsGif: img.onerror rejects the promise; the first rejection       *)
(* resumes handleExport in its catch block.                                *)
(***************************************************************************)
gifImageOnerror(c, p) ==
  /\ c \in 1..Len(calls)
  /\ calls[c].format = "gif"
  /\ p \in Waiting(calls[c])
  /\ IF calls[c].awaited
     THEN /\ CatchFinally(ImageLoadAlert)
          /\ calls' = [calls EXCEPT ![c].errored = @ \cup {p}, ![c].awaited = FALSE,
                         ![c].reported = 100, ![c].st = "rejected"]
     ELSE /\ calls' = [calls EXCEPT ![c].errored = @ \cup {p}]
          /\ UNCHANGED <<alertMsg, isExporting, progress, exportStatus, statusTimers>>
  /\ UNCHANGED <<playerVars, isOpen, isPyodideLoading, exportOptions, exportPc,
                 svcIsInitialized, initPromise, listeners, workerInbox,
                 workerIsInitialized, toMain, downloads, linkDownload, lifecycleVars>>

\* gif.on('progress'): p = finished frames / frames.
gifProgress(c) ==
  /\ c \in 1..Len(calls)
  /\ calls[c].st = "rendering"
  /\ calls[c].rendered < Len(calls[c].ids)
  /\ LET value == 50 + FloorDiv((calls[c].rendered + 1) * 50, Len(calls[c].ids))
     IN /\ progress' = value
        /\ calls' = [calls EXCEPT ![c].rendered = @ + 1, ![c].reported = value]
  /\ UNCHANGED <<playerVars, isOpen, isExporting, isPyodideLoading, exportOptions,
                 alertMsg, exportPc, svcIsInitialized, initPromise, listeners,
                 workerInbox, workerIsInitialized, toMain, downloads, linkDownload, exportStatus,
                 statusTimers, lifecycleVars>>

\* gif.on('finished'): download, resolve; handleExport resumes in finally.
gifFinished(c) ==
  /\ c \in 1..Len(calls)
  /\ calls[c].st = "rendering"
  /\ calls[c].rendered = Len(calls[c].ids)
  /\ downloads' = downloads + 1
  /\ \E now \in 0..MaxNow : linkDownload' = DownloadName(now, "gif")
  /\ Finally
  /\ calls' = [calls EXCEPT ![c].st = "downloaded", ![c].awaited = FALSE,
                 ![c].reported = 100]
  /\ UNCHANGED <<playerVars, isOpen, isPyodideLoading, exportOptions, alertMsg, exportPc,
                 svcIsInitialized, initPromise, listeners, workerInbox,
                 workerIsInitialized, toMain, lifecycleVars>>

(***************************************************************************)
(* drawNextFrame after its image loaded: progress from frameIndex, or from *)
(* the time elapsed when the whole soundtrack is used, capped at 99; then  *)
(* the next frame is scheduled.                                            *)
(***************************************************************************)
drawNextFrame(c) ==
  /\ c \in 1..Len(calls)
  /\ calls[c].st = "recording"
  /\ Len(calls[c].done) < Len(calls[c].ids)
  /\ LET frameIndex == Len(calls[c].done)
         progressValue ==
           IF calls[c].soundtrack
           THEN FloorDiv(calls[c].elapsed * 100, SoundtrackTicks)
           ELSE FloorDiv(frameIndex * 100, Len(calls[c].ids))
     IN /\ progress' = Min(progressValue, 99)
        /\ exportStatus' = "Processing frame"
        /\ calls' = [calls EXCEPT ![c].done = Append(@, frameIndex + 1),
                       ![c].reported = Min(progressValue, 99)]
  /\ UNCHANGED <<playerVars, isOpen, isExporting, isPyodideLoading, exportOptions,
                 alertMsg, exportPc, svcIsInitialized, initPromise, listeners,
                 workerInbox, workerIsInitialized, toMain, downloads, linkDownload, statusTimers,
                 lifecycleVars>>

(***************************************************************************)
(* drawNextFrame when its image fails: the promise it awaits rejects, and  *)
(* nothing awaits drawNextFrame.  No frame is scheduled after it and the   *)
(* recorder is never stopped.                                              *)
(***************************************************************************)
drawNextFrameOnerror(c) ==
  /\ c \in 1..Len(calls)
  /\ calls[c].st = "recording"
  /\ Len(calls[c].done) < Len(calls[c].ids)
  /\ calls' = [calls EXCEPT ![c].errored = @ \cup {Len(calls[c].done) + 1},
                 ![c].st = "stalled"]
  /\ UNCHANGED <<playerVars, isOpen, isExporting, progress, isPyodideLoading,
                 exportOptions, alertMsg, exportPc, svcIsInitialized, initPromise,
                 listeners, workerInbox, workerIsInitialized, toMain, downloads, linkDownload,
                 exportStatus, statusTimers, lifecycleVars>>

\* performance.now() moves on; the recordings that use the soundtrack read it.
Timed(call) ==
  call.soundtrack /\ call.st \in {"recording", "waiting"} /\ call.elapsed <= SoundtrackTicks

tick ==
  /\ \E c \in 1..Len(calls) : Timed(calls[c])
  /\ calls' = [c \in 1..Len(calls) |->
                 IF Timed(calls[c]) THEN [calls[c] EXCEPT !.elapsed = @ + 1] ELSE calls[c]]
  /\ UNCHANGED <<playerVars, isOpen, isExporting, progress, isPyodideLoading,
                 exportOptions, alertMsg, exportPc, svcIsInitialized, initPromise,
                 listeners, workerInbox, workerIsInitialized, toMain, downloads, linkDownload,
                 exportStatus, statusTimers, lifecycleVars>>

\* remainingTime > 0 in drawNextFrame past the last frame.
AudioRemains(call) == call.soundtrack /\ call.elapsed < SoundtrackTicks

(***************************************************************************)
(* drawNextFrame past the last frame while audio remains: it sets a timer  *)
(* for the remaining time, which will stop the recorder.                   *)
(***************************************************************************)
waitForAudio(c) ==
  /\ c \in 1..Len(calls)
  /\ calls[c].st = "recording"
  /\ Len(calls[c].done) = Len(calls[c].ids)
  /\ AudioRemains(calls[c])
  /\ exportStatus' = "Waiting for audio to complete"
  /\ calls' = [calls EXCEPT ![c].st = "waiting"]
  /\ UNCHANGED <<playerVars, isOpen, isExporting, progress, isPyodideLoading,
                 exportOptions, alertMsg, exportPc, svcIsInitialized, initPromise,
                 listeners, workerInbox, workerIsInitialized, toMain, downloads, linkDownload,
                 statusTimers, lifecycleVars>>

\* recorder.stop() without the wait for the audio.
StopAtLastFrame(call) ==
  call.st = "recording" /\ Len(call.done) = Len(call.ids)

\* recorder.stop() is reached: by drawNextFrame past the last frame when no audio
\* remains, or by the timer it set, which runs once the remaining time has passed.
StopReached(call) ==
  \/ call.st = "recording" /\ Len(call.done) = Len(call.ids) /\ ~AudioRemains(call)
  \/ call.st = "waiting" /\ call.elapsed >= SoundtrackTicks

\* recorder.stop(), and recorder.onstop: the download.
recorderOnstop(c) ==
  /\ c \in 1..Len(calls)
  /\ StopReached(calls[c])
  /\ downloads' = downloads + 1
  /\ \E now \in 0..MaxNow : linkDownload' = DownloadName(now, calls[c].format)
  /\ progress' = 100
  /\ exportStatus' = VideoCompleteStatus
  /\ calls' = [calls EXCEPT ![c].st = "downloaded", ![c].reported = 100,
                 ![c].stops = @ + 1]
  /\ UNCHANGED <<playerVars, isOpen, isExporting, isPyodideLoading, exportOptions,
                 alertMsg, exportPc, svcIsInitialized, initPromise, listeners,
                 workerInbox, workerIsInitialized, toMain, statusTimers, lifecycleVars>>

(***************************************************************************)
(* exportAsPngSequence: the toBlob callback of one frame, after its image  *)
(* loaded.  The file is named after the slot's id.  The last one generates *)
(* the archive and downloads it.                                           *)
(***************************************************************************)
pngFrameProcessed(c, p) ==
  /\ c \in 1..Len(calls)
  /\ calls[c].format = "png"
  /\ p \in Waiting(calls[c])
  /\ LET processedFrames == Len(calls[c].done) + 1
         total == Len(calls[c].ids)
         value == FloorDiv(processedFrames * 100, total)
     IN /\ progress' = value
        /\ downloads' = IF processedFrames = total THEN downloads + 1 ELSE downloads
        /\ \E now \in 0..MaxNow :
             linkDownload' = IF processedFrames = total THEN FramesArchiveName(now)
                             ELSE linkDownload
        /\ calls' = [calls EXCEPT ![c].done = Append(@, p), ![c].reported = value,
                       ![c].entries = Append(@, FrameFileName(calls[c].ids[p])),
                       ![c].st = IF processedFrames = total THEN "downloaded" ELSE @]
  /\ UNCHANGED <<playerVars, isOpen, isExporting, isPyodideLoading, exportOptions,
                 alertMsg, exportPc, svcIsInitialized, initPromise, listeners,
                 workerInbox, workerIsInitialized, toMain, exportStatus, statusTimers,
                 lifecycleVars>>

\* exportAsPngSequence sets no img.onerror: a failed image runs no code.
pngImageError(c, p) ==
  /\ c \in 1..Len(calls)
  /\ calls[c].format = "png"
  /\ p \in Waiting(calls[c])
  /\ calls' = [calls EXCEPT ![c].errored = @ \cup {p}]
  /\ UNCHANGED <<playerVars, isOpen, isExporting, progress, isPyodideLoading,
                 exportOptions, alertMsg, exportPc, svcIsInitialized, initPromise,
                 listeners, workerInbox, workerIsInitialized, toMain, downloads, linkDownload,
                 exportStatus, statusTimers, lifecycleVars>>

\* The timer of finally, three seconds later.
resetStatus ==
  /\ statusTimers > 0
  /\ statusTimers' = statusTimers - 1
  /\ exportStatus' = ""
  /\ UNCHANGED <<playerVars, isOpen, isExporting, progress, isPyodideLoading,
                 exportOptions, alertMsg, exportPc, svcIsInitialized, initPromise,
                 listeners, workerInbox, workerIsInitialized, toMain, downloads, linkDownload, calls,
                 lifecycleVars>>

Positions == 1..MaxExportLen

InProcessNext ==
  \/ showModal
  \/ closeModal
  \/ \E format \in ExportFormats : handleFormatChange(format)
  \/ \E checked \in BOOLEAN : handleAudioChange(checked)
  \/ \E supported \in BOOLEAN : handleExportInProcess(supported)
  \/ \E c \in 1..Len(calls), decoded \in BOOLEAN, supported \in BOOLEAN :
       audioDecoded(c, decoded, supported)
  \/ \E c \in 1..Len(calls), p \in Positions : gifImageOnload(c, p)
  \/ \E c \in 1..Len(calls), p \in Positions : gifImageOnerror(c, p)
  \/ \E c \in 1..Len(calls) : gifProgress(c)
  \/ \E c \in 1..Len(calls) : gifFinished(c)
  \/ \E c \in 1..Len(calls) : drawNextFrame(c)
  \/ \E c \in 1..Len(calls) : drawNextFrameOnerror(c)
  \/ \E c \in 1..Len(calls) : recorderOnstop(c)
  \/ \E c \in 1..Len(calls), p \in Positions : pngFrameProcessed(c, p)
  \/ \E c \in 1..Len(calls), p \in Positions : pngImageError(c, p)
  \/ resetStatus

InProcessSpec == ExportInit /\ [][InProcessNext]_vars

(***************************************************************************)
(* The video backend of the in-process modal with its audio options: the   *)
(* modal after the MP4 button was clicked, for MaxRecordings exports.      *)
(***************************************************************************)
MaxRecordings == 1

VideoFormats == {"mp4", "webm"}

RecorderInit ==
  /\ frames \in ExportTimelines
  /\ selectedFrame = Null
  /\ isPlaying = FALSE
  /\ duration = Time(0)
  /\ currentTime = Time(0)
  /\ isWaveformReady = FALSE
  /\ audioFile = 1
  /\ audioDuration = Time(0)
  /\ pending = {}
  /\ lastSelectedFrame = Null
  /\ isOpen = TRUE
  /\ isExporting = FALSE
  /\ progress = 0
  /\ isPyodideLoading = FALSE
  /\ exportOptions = [InitialExportOptions EXCEPT !.format = "mp4"]
  /\ alertMsg = ""
  /\ exportPc = "idle"
  /\ svcIsInitialized = FALSE
  /\ initPromise = "pending"
  /\ listeners = {"init"}
  /\ workerInbox = <<InitRequest>>
  /\ workerIsInitialized = FALSE
  /\ toMain = <<>>
  /\ downloads = 0
  /\ linkDownload = ""
  /\ worker = 1
  /\ workersCreated = 1
  /\ workerRunning = <<>>
  /\ pyodideLoads = 0
  /\ videoExport = NoRecording
  /\ exportStatus = ""
  /\ statusTimers = 0
  /\ calls = <<>>

RecorderNext ==
  \/ \E format \in VideoFormats : handleFormatChange(format)
  \/ \E checked \in BOOLEAN : handleAudioChange(checked)
  \/ \E checked \in BOOLEAN : handleEntireSoundtrackChange(checked)
  \/ \E supported \in BOOLEAN :
       Len(calls) < MaxRecordings /\ handleExportInProcess(supported)
  \/ \E c \in 1..Len(calls), decoded \in BOOLEAN, supported \in BOOLEAN :
       audioDecoded(c, decoded, supported)
  \/ \E c \in 1..Len(calls) : drawNextFrame(c)
  \/ \E c \in 1..Len(calls) : drawNextFrameOnerror(c)
  \/ tick
  \/ \E c \in 1..Len(calls) : waitForAudio(c)
  \/ \E c \in 1..Len(calls) : recorderOnstop(c)
  \/ resetStatus

RecorderSpec == RecorderInit /\ [][RecorderNext]_vars

(***************************************************************************)
(* PythonExportService used by callers that do not wait for one another:  *)
(* generateMovie is a public method of a singleton, and each call adds its *)
(* own message handler to the one worker.  Here calls holds the calls of   *)
(* generateMovie: the format and frames each was given, where it stands    *)
(* (awaitInit, listening, resolved, rejected) and the message that settled *)
(* it.                                                                     *)
(***************************************************************************)
MaxServiceCalls == 2

ServiceCall(format, frs) ==
  [format |-> format, frames |-> frs, st |-> "awaitInit", result |-> Response("", "", "")]

\* generateMovie is called: it awaits ensureInitialized().
serviceCall(format) ==
  /\ Len(calls) < MaxServiceCalls
  /\ calls' = Append(calls, ServiceCall(format, frames))
  /\ UNCHANGED <<playerVars, isOpen, isExporting, progress, isPyodideLoading,
                 exportOptions, alertMsg, exportPc, svcIsInitialized, initPromise,
                 listeners, workerInbox, workerIsInitialized, toMain, downloads, linkDownload,
                 exportStatus, statusTimers, lifecycleVars>>

\* The call goes on after the await: it adds its handler and posts generate, or
\* throws what the initialization was rejected with.
serviceCallResumes(c) ==
  /\ c \in 1..Len(calls)
  /\ calls[c].st = "awaitInit"
  /\ initPromise # "pending"
  /\ IF svcIsInitialized
     THEN /\ calls' = [calls EXCEPT ![c].st = "listening"]
          /\ workerInbox' =
               Append(workerInbox, Request("generate", calls[c].format, calls[c].frames))
     ELSE /\ calls' = [calls EXCEPT ![c].st = "rejected",
                                    ![c].result = Response("error", "", LoadError)]
          /\ UNCHANGED workerInbox
  /\ UNCHANGED <<playerVars, isOpen, isExporting, progress, isPyodideLoading,
                 exportOptions, alertMsg, exportPc, svcIsInitialized, initPromise,
                 listeners, workerIsInitialized, toMain, downloads, linkDownload,
                 exportStatus, statusTimers, lifecycleVars>>

\* What a handler of generateMovie does with message m: complete resolves, error
\* rejects, and either removes the handler.
Settled(call, m) ==
  IF call.st = "listening" /\ m.type \in {"complete", "error"}
  THEN [call EXCEPT !.st = IF m.type = "complete" THEN "resolved" ELSE "rejected",
                    !.result = m]
  ELSE call

\* dispatchMessage handing a complete or error message to the oldest handler only.
dispatchMessageToOldest ==
  /\ Len(toMain) > 0
  /\ LET m == Head(toMain)
         initResolves == "init" \in listeners /\ m.type = "initialized"
         initRejects == "init" \in listeners /\ m.type = "error" /\ ~svcIsInitialized
         listening == {c \in 1..Len(calls) : calls[c].st = "listening"}
     IN /\ toMain' = Tail(toMain)
        /\ svcIsInitialized' = (svcIsInitialized \/ initResolves)
        /\ initPromise' = IF initResolves THEN "resolved"
                          ELSE IF initRejects THEN "rejected" ELSE initPromise
        /\ listeners' = listeners \ (IF initResolves \/ initRejects THEN {"init"} ELSE {})
        /\ calls' = [c \in 1..Len(calls) |->
                       IF \A d \in listening : c <= d THEN Settled(calls[c], m)
                       ELSE calls[c]]
  /\ UNCHANGED <<playerVars, isOpen, isExporting, progress, isPyodideLoading,
                 exportOptions, alertMsg, exportPc, workerInbox, workerIsInitialized,
                 downloads, linkDownload, exportStatus, statusTimers, lifecycleVars>>

\* A message event on the main thread: the handler of initWorker and the handler
\* of every call that is listening see it.
dispatchMessage ==
  /\ Len(toMain) > 0
  /\ LET m == Head(toMain)
         initResolves == "init" \in listeners /\ m.type = "initialized"
         initRejects == "init" \in listeners /\ m.type = "error" /\ ~svcIsInitialized
     IN /\ toMain' = Tail(toMain)
        /\ svcIsInitialized' = (svcIsInitialized \/ initResolves)
        /\ initPromise' = IF initResolves THEN "resolved"
                          ELSE IF initRejects THEN "rejected" ELSE initPromise
        /\ listeners' = listeners \ (IF initResolves \/ initRejects THEN {"init"} ELSE {})
        /\ calls' = [c \in 1..Len(calls) |-> Settled(calls[c], m)]
  /\ UNCHANGED <<playerVars, isOpen, isExporting, progress, isPyodideLoading,
                 exportOptions, alertMsg, exportPc, workerInbox, workerIsInitialized,
                 downloads, linkDownload, exportStatus, statusTimers, lifecycleVars>>

ServiceNext ==
  \/ \E format \in ExportFormats : serviceCall(format)
  \/ \E c \in 1..Len(calls) : serviceCallResumes(c)
  \/ \E loads \in BOOLEAN : workerInit(loads)
  \/ \E loads \in BOOLEAN : workerGenerate(loads)
  \/ dispatchMessage

ServiceSpec == ExportInit /\ [][ServiceNext]_vars

(***************************************************************************)
(* processGifForFrame from the dropped file on.  A GIF file is what        *)
(* gifuct-js makes of it: whether parseGIF/decompressFrames throw, and the *)
(* decoded frames with their disposalType, dims, patch and delay.  Bitmaps *)
(* are one row of pixels, a sequence of colours; colour 0 is transparent.  *)
(* The patch of a well-formed frame holds dims.width pixels.  Delays count *)
(* 1/TimeDen second.                                                       *)
(***************************************************************************)
\* The widest patch of a GIF frame, in pixels.
MaxGifWidth == 2
\* The most frames a GIF file holds.
MaxFileFrames == 3
\* The longest delay of one GIF frame, in 1/TimeDen second.
MaxGifDelay == 1

Transparent == 0

\* previousImageData before the first frame.
NoImageData == <<>>

GifAlert == "Error processing GIF. Please try another file."

GifFrame(disposalType, left, width, patch, delay) ==
  [disposalType |-> disposalType, dims |-> [left |-> left, width |-> width],
   patch |-> patch, delay |-> delay]

\* document.createElement('canvas') with canvas.width = width: all transparent.
NewCanvas(width) == [x \in 1..width |-> Transparent]

\* ctx.clearRect(0, 0, canvas.width, canvas.height)
ClearRect(canvas) == [x \in 1..Len(canvas) |-> Transparent]

\* ctx.putImageData(imageData, left, 0): the patch replaces the pixels it covers;
\* what falls outside the canvas is dropped.
PutImageData(canvas, patch, left) ==
  [x \in 1..Len(canvas) |->
     IF x - left >= 1 /\ x - left <= Len(patch) THEN patch[x - left] ELSE canvas[x]]

\* The disposal step of the loop taking the disposalType of the frame being drawn.
DisposeOwn(canvas, previousImageData, gifFrames, i) ==
  IF i > 1
  THEN IF gifFrames[i].disposalType = 2 THEN ClearRect(canvas)
       ELSE IF gifFrames[i].disposalType = 3 /\ previousImageData # NoImageData
            THEN previousImageData
            ELSE canvas
  ELSE ClearRect(canvas)

\* The disposal step that leaves the canvas as it is for disposalType 3.
DisposeWithoutRestore(canvas, previousImageData, gifFrames, i) ==
  IF i > 1
  THEN IF gifFrames[i - 1].disposalType = 2 THEN ClearRect(canvas) ELSE canvas
  ELSE ClearRect(canvas)

\* The disposal step of the loop for frame i (from 1): what the canvas holds
\* before frame i's patch is put on it.
Dispose(canvas, previousImageData, gifFrames, i) ==
  IF i > 1
  THEN IF gifFrames[i - 1].disposalType = 2 THEN ClearRect(canvas)
       ELSE IF gifFrames[i - 1].disposalType = 3 /\ previousImageData # NoImageData
            THEN previousImageData
            ELSE canvas
  ELSE ClearRect(canvas)

\* The loop from frame i on: the bitmaps of frames i .. length.
RECURSIVE Composite(_, _, _, _)
Composite(gifFrames, i, canvas, previousImageData) ==
  IF i > Len(gifFrames) THEN <<>>
  ELSE LET disposed == Dispose(canvas, previousImageData, gifFrames, i)
           drawn == PutImageData(disposed, gifFrames[i].patch, gifFrames[i].dims.left)
       IN <<drawn>> \o Composite(gifFrames, i + 1, drawn, disposed)

\* The bitmaps the loop pushes, in order; the canvas has the first frame's width.
frameImages(gifFrames) ==
  Composite(gifFrames, 1, NewCanvas(gifFrames[1].dims.width), NoImageData)

\* canvas.toDataURL('image/png'): equal bitmaps give equal URLs, different
\* bitmaps different ones.  The URL is named by the digits of the pixels.
RECURSIVE PixelCode(_)
PixelCode(canvas) ==
  IF canvas = <<>> THEN 1
  ELSE Head(canvas) + (MaxFileFrames + 1) * PixelCode(Tail(canvas))

ToDataURL(canvas) == Img("gif", PixelCode(canvas), audioFile)

\* new ImageData(data, width, height) throws unless data holds width*height pixels.
BadPatch(gifFrame) == Len(gifFrame.patch) # gifFrame.dims.width

\* DecodeFails without the ImageData check.
DecodeFailsPatchUnchecked(file, ctx) ==
  \/ ~file.parses
  \/ ~ctx
  \/ Len(file.frames) = 0

\* What makes the try block throw before handleImageUpload: parseGIF or
\* decompressFrames, a null 2d context, frames[0] undefined, a bad patch.
DecodeFails(file, ctx) ==
  \/ ~file.parses
  \/ ~ctx
  \/ Len(file.frames) = 0
  \/ \E i \in 1..Len(file.frames) : BadPatch(file.frames[i])

RECURSIVE SumDelays(_)
SumDelays(gifFrames) ==
  IF gifFrames = <<>> THEN 0 ELSE Head(gifFrames).delay + SumDelays(Tail(gifFrames))

\* totalDuration: the sum of the frame delays, in seconds.
TotalDuration(gifFrames) == Time(SumDelays(gifFrames))

\* disposalType 1 (leave as is) takes neither branch, as 0 does.
Disposals == {0, 2, 3}

Regions ==
  {r \in (0..(MaxGifWidth - 1)) \X (1..MaxGifWidth) : r[1] + r[2] <= MaxGifWidth}

\* Well-formed files of n frames; frame k's patch is painted in colour k.
GoodFiles(n) ==
  {[parses |-> TRUE,
    frames |-> [k \in 1..n |->
                  GifFrame(dsp[k], reg[k][1], reg[k][2], [x \in 1..reg[k][2] |-> k], delay)]] :
     dsp \in [1..n -> Disposals], reg \in [1..n -> Regions], delay \in 0..MaxGifDelay}

\* A file whose last frame has an empty patch.
BadPatchFiles(n) ==
  {[file EXCEPT !.frames[n].patch = <<>>] : file \in GoodFiles(n)}

GifFiles ==
  UNION {GoodFiles(n) : n \in 0..MaxFileFrames}
    \cup UNION {BadPatchFiles(n) : n \in 1..(MaxFileFrames - 1)}
    \cup {[parses |-> FALSE, frames |-> <<>>]}

FileOp(frameId, file, closure) ==
  [kind |-> "gifFile", frameId |-> frameId, file |-> file, closure |-> closure]

\* handleFrameDrop with a file of type image/gif: processGifForFrame starts and
\* waits for the import and for file.arrayBuffer().
handleFrameDrop(frameId, file) ==
  /\ frameId \in 0..(Len(frames) - 1)
  /\ Cardinality(pending) < MaxPending
  /\ pending' = pending \cup {FileOp(frameId, file, frames)}
  /\ UNCHANGED <<exportVars, lastSelectedFrame, frames, selectedFrame, isPlaying, duration, currentTime,
                 isWaveformReady, audioFile, audioDuration>>

\* processGifForFrame once the buffer is read: the rest of the try block runs
\* without a pause.  ctx: whether getContext('2d') returned a context.
processGifFile(op, ctx) ==
  /\ op \in pending
  /\ op.kind = "gifFile"
  /\ IF DecodeFails(op.file, ctx)
     THEN /\ alertMsg' = GifAlert
          /\ UNCHANGED frames
     ELSE LET bitmaps == frameImages(op.file.frames)
              images == [j \in 1..Len(bitmaps) |-> ToDataURL(bitmaps[j])]
              setFramesCalls ==
                <<handleImageUpload(frames, op.closure, images[1], op.frameId),
                  handleGifProcessed(op.closure, images, TotalDuration(op.file.frames),
                                     op.frameId)>>
          IN /\ frames' = setFramesCalls[Len(setFramesCalls)]
             /\ UNCHANGED alertMsg
  /\ pending' = pending \ {op}
  /\ UNCHANGED <<lastSelectedFrame, selectedFrame, isPlaying, duration, currentTime,
                 isWaveformReady,
                 audioFile, audioDuration>>
  /\ UNCHANGED <<isOpen, isExporting, progress, isPyodideLoading, exportOptions,
                 exportPc, svcIsInitialized, initPromise, listeners, workerInbox,
                 workerIsInitialized, toMain, downloads, linkDownload, exportStatus, statusTimers, calls,
                 lifecycleVars>>

(***************************************************************************)
(* FrameEditor.processGif from the file on, for a GIF chosen or dropped in *)
(* the editor of the selected slot.  The decoding is the same code.  When  *)
(* it succeeds, onImageUpload(frameImages[0]) sets the frames, and         *)
(* onGifProcessed(frameImages, frame.id, frameDelays) runs                 *)
(* handleGifProcessed with an array where it expects gifInfo: reading      *)
(* gifInfo.frames.length throws, and the catch block of processGif alerts. *)
(***************************************************************************)
handleFileChange(file) ==
  /\ ~isPlaying
  /\ selectedFrame \in 0..(Len(frames) - 1)
  /\ Cardinality(pending) < MaxPending
  /\ pending' = pending \cup
       {[kind |-> "editorGifFile", frameId |-> selectedFrame, file |-> file,
         closure |-> frames]}
  /\ UNCHANGED <<exportVars, lastSelectedFrame, frames, selectedFrame, isPlaying, duration, currentTime,
                 isWaveformReady, audioFile, audioDuration>>

processGifEditorFile(op, ctx) ==
  /\ op \in pending
  /\ op.kind = "editorGifFile"
  /\ IF DecodeFails(op.file, ctx)
     THEN UNCHANGED frames
     ELSE frames' = handleImageUpload(frames, op.closure,
                                      ToDataURL(frameImages(op.file.frames)[1]),
                                      op.frameId)
  /\ alertMsg' = GifAlert
  /\ pending' = pending \ {op}
  /\ UNCHANGED <<lastSelectedFrame, selectedFrame, isPlaying, duration, currentTime,
                 isWaveformReady,
                 audioFile, audioDuration>>
  /\ UNCHANGED <<isOpen, isExporting, progress, isPyodideLoading, exportOptions,
                 exportPc, svcIsInitialized, initPromise, listeners, workerInbox,
                 workerIsInitialized, toMain, downloads, linkDownload, exportStatus, statusTimers, calls,
                 lifecycleVars>>

(***************************************************************************)
(* The player with a generated timeline that holds stills, and one GIF     *)
(* file dropped on a slot or handed to the editor.                         *)
(***************************************************************************)
GifInit ==
  /\ frames \in ExportTimelines
  /\ selectedFrame \in {Null} \cup 0..(Len(frames) - 1)
  /\ isPlaying = FALSE
  /\ audioDuration \in Durations
  /\ Len(frames) = Len(NewFrames(audioDuration))
  /\ duration = audioDuration
  /\ currentTime = Time(0)
  /\ isWaveformReady = TRUE
  /\ audioFile = 1
  /\ pending = {}
  /\ lastSelectedFrame = Null
  /\ ExportVarsInit

GifNext ==
  \/ /\ alertMsg = ""
     /\ Cardinality(pending) < MaxPending
     /\ \A i \in 1..Len(frames) : frames[i].image.kind # "gif"
     /\ \E frameId \in 0..(Len(frames) - 1), file \in GifFiles :
          handleFrameDrop(frameId, file)
  \/ /\ alertMsg = ""
     /\ Cardinality(pending) < MaxPending
     /\ \A i \in 1..Len(frames) : frames[i].image.kind # "gif"
     /\ \E file \in GifFiles : handleFileChange(file)
  \/ \E op \in pending, ctx \in BOOLEAN : processGifFile(op, ctx)
  \/ \E op \in pending, ctx \in BOOLEAN : processGifEditorFile(op, ctx)

GifSpec == GifInit /\ [][GifNext]_vars


(***************************************************************************)
(* Helpers of the properties.                                              *)
(***************************************************************************)
\* n = ceil(t * FPS), stated without the model's own division.
IsCeilOfFrames(n, t) ==
  /\ n * t[2] >= t[1] * FPS
  /\ (n - 1) * t[2] < t[1] * FPS

\* idx = floor(t * FPS).
IsFloorOfFrames(idx, t) ==
  /\ idx * t[2] <= t[1] * FPS
  /\ (idx + 1) * t[2] > t[1] * FPS

Clamp(x, lo, hi) == IF x < lo THEN lo ELSE IF x > hi THEN hi ELSE x

SameSlotsExceptImages(a, b) ==
  /\ Len(a) = Len(b)
  /\ \A i \in 1..Len(a) : a[i].id = b[i].id /\ a[i].time = b[i].time

(***************************************************************************)
(* C1: generating on an empty timeline yields exactly ceil(duration*FPS)   *)
(* slots, where slot i has id i, time i/FPS and no image.                  *)
(***************************************************************************)
C1_GenerateOnEmpty ==
  [][(handleReady /\ Len(frames) = 0) =>
       /\ IsCeilOfFrames(Len(frames'), audioDuration)
       /\ \A i \in 0..(Len(frames') - 1) :
            /\ frames'[i + 1].id = i
            /\ RatEq(frames'[i + 1].time, <<i, FPS>>)
            /\ frames'[i + 1].image = NullImage]_vars

\* A timeline of two empty slots generated for a duration that is not a whole
\* number of frames (1.5 frames round up to 2).
C1_Witness ==
  /\ Len(frames) = 2
  /\ (duration[1] * FPS) % duration[2] # 0
  /\ IsCeilOfFrames(2, duration)
  /\ \A i \in 1..Len(frames) : frames[i].image = NullImage

(***************************************************************************)
(* C2: once the audio clock has reported ready, the timeline length equals *)
(* ceil(duration*FPS) for the stored duration, also after a later ready    *)
(* reported another duration.                                              *)
(***************************************************************************)
C2_LengthMatchesDuration ==
  isWaveformReady => IsCeilOfFrames(Len(frames), duration)

(***************************************************************************)
(* C3: once a new audio source is ready, the timeline has                  *)
(* ceil(newDuration*FPS) slots and no slot holds an image assigned under   *)
(* the previous source.                                                    *)
(***************************************************************************)
C3_FreshTimelinePerSource ==
  isWaveformReady =>
    /\ IsCeilOfFrames(Len(frames), audioDuration)
    /\ \A i \in 1..Len(frames) :
         Truthy(frames[i].image) => frames[i].image.src = audioFile

(***************************************************************************)
(* C4: generate is a no-op when the timeline already has a slot, whatever  *)
(* duration is passed.                                                     *)
(***************************************************************************)
C4_GenerateNoOpWhenNonEmpty ==
  [][(handleReady /\ Len(frames) > 0) => frames' = frames]_vars

\* Ready has been handled for a second audio file of another length while a
\* slot held an image: the timeline is still the one of the first file.
C4_Witness ==
  /\ isWaveformReady
  /\ audioFile = 2
  /\ Len(frames) > 0
  /\ ~IsCeilOfFrames(Len(frames), duration)
  /\ \E i \in 1..Len(frames) : Truthy(frames[i].image)

(***************************************************************************)
(* C5: assignImage(slotId, image) with slotId out of range changes         *)
(* nothing; in range it replaces that slot's image and leaves the length   *)
(* and every other slot's id, time and image as they were.                 *)
(***************************************************************************)
AssignsOnly(slotId, image) ==
  IF slotId \in 0..(Len(frames) - 1)
  THEN /\ Len(frames') = Len(frames)
       /\ \A i \in 1..Len(frames) :
            IF frames[i].id = slotId
            THEN frames'[i] = [frames[i] EXCEPT !.image = image]
            ELSE frames'[i] = frames[i]
  ELSE frames' = frames

C5_AssignOnlyTarget ==
  [][/\ \A op \in pending :
          readerOnload(op) => AssignsOnly(op.frameId, op.images[1])
     /\ handleRemoveImage => AssignsOnly(selectedFrame, EmptyUrl)]_vars

(***************************************************************************)
(* C6: every time t delivered by seek, scrub or playback-follow on a       *)
(* non-empty timeline selects floor(t*FPS) clamped to [0, length-1].       *)
(***************************************************************************)
Delivers(t) == handleAudioProcess(t) \/ updateOnSeek(t) \/ handleWaveformClick(t)

SelectedFor(t) == SelectForTime(t, frames, selectedFrame)

Idempotent ==
  \A t \in ClockTimes :
    SelectForTime(t, frames, SelectedFor(t)) = SelectedFor(t)

InTimeline(t) ==
  \E idx \in 0..(Len(frames) - 1) : IsFloorOfFrames(idx, t)

MapsGif(op) ==
  \E span \in 0..(MaxGifNum * FPS), available \in 0..Len(frames) :
    /\ IsCeilOfFrames(span, op.total)
    /\ available = Min(op.frameId + span, Len(frames)) - op.frameId
    /\ \A i \in 0..(available - 1) :
         \E g \in 0..(Len(op.images) - 1) :
           /\ g = Min((i * Len(op.images)) \div available, Len(op.images) - 1)
           /\ frames'[op.frameId + i + 1].image = op.images[g + 1]

C8_MapperExample ==
  /\ AudioFramesForGif(<<1, 1>>) = 24
  /\ AvailableFrames(5, 24, 100) = 24
  /\ GifFrameIndex(0, 24, 10) = 0
  /\ GifFrameIndex(23, 24, 10) = 9
  /\ \A i \in 0..23 : GifFrameIndex(i, 24, 10) = (i * 10) \div 24

MapsOnlyRange(op) ==
  LET available == AvailableFrames(op.frameId, AudioFramesForGif(op.total), Len(frames))
  IN /\ SameSlotsExceptImages(frames, frames')
     /\ \A k \in 1..Len(frames) :
          (k - 1 < op.frameId \/ k - 1 >= op.frameId + available) =>
            frames'[k].image = frames[k].image
     /\ available = 0 => frames' = frames

C9_MapperTouchesOnlyRange ==
  [][\A op \in pending : processGifForFrame(op) => MapsOnlyRange(op)]_vars

(***************************************************************************)
(* C10: requesting an export when no slot holds an image only raises the   *)
(* "no frames to export" alert: the exporting flag is not set, no generate *)
(* message is posted to the worker and no artifact is produced, neither by *)
(* the request nor at any time while the timeline holds no image.          *)
(***************************************************************************)
NoPopulatedFrame == \A i \in 1..Len(frames) : ~Truthy(frames[i].image)

GeneratePosted == \E k \in 1..Len(workerInbox) : workerInbox[k].type = "generate"

C10_EmptyExportRefused ==
  /\ [](NoPopulatedFrame =>
         /\ ~isExporting
         /\ ~GeneratePosted
         /\ "generate" \notin listeners
         /\ downloads = 0)
  /\ [][(handleExport /\ NoPopulatedFrame) =>
         /\ ~isExporting'
         /\ alertMsg' = NoFramesAlert
         /\ exportPc' = "idle"
         /\ workerInbox' = workerInbox
         /\ toMain' = toMain
         /\ downloads' = downloads]_vars

\* An export was requested for a timeline whose only image was removed, with
\* the worker initialized and ready to encode.
C10_Witness ==
  /\ Len(frames) > 0
  /\ NoPopulatedFrame
  /\ \E i \in 1..Len(frames) : frames[i].image = EmptyUrl
  /\ svcIsInitialized
  /\ alertMsg = NoFramesAlert
  /\ ~isExporting
  /\ ~GeneratePosted
  /\ downloads = 0

(***************************************************************************)
(* C11: within one export call the values passed to setProgress never      *)
(* decrease and lie in 0..100, and a call whose artifact was downloaded    *)
(* reported 100 last.                                                      *)
(***************************************************************************)
C11_ProgressNonDecreasing ==
  /\ [](\A c \in 1..Len(calls) :
          /\ calls[c].reported \in 0..100
          /\ (calls[c].st = "downloaded" => calls[c].reported = 100))
  /\ [][\A c \in 1..Len(calls) : calls'[c].reported >= calls[c].reported]_vars

(***************************************************************************)
(* C12: a step in which the backend of an export call fails reports        *)
(* neither the 'Export complete!' status nor 100% progress, and a step     *)
(* that downloads an artifact raises no failure alert.                     *)
(***************************************************************************)
BackendFails(c) ==
  /\ calls'[c].st = "rejected"
  /\ c \in 1..Len(calls) => calls[c].st # "rejected"

C12_FailedNeverReportedComplete ==
  [][/\ \A c \in 1..Len(calls') :
          BackendFails(c) => exportStatus' # ExportCompleteStatus /\ progress' # 100
     /\ downloads' > downloads => alertMsg' = alertMsg]_vars

(***************************************************************************)
(* C13: while the backend of some export call is still encoding, no step   *)
(* closes the modal and no step starts another export call.                *)
(***************************************************************************)
InFlight(call) ==
  call.st \in {"audio", "loading", "rendering", "recording", "waiting"} /\ call.errored = {}

C13_NoCloseNoSecondExportInFlight ==
  [][(\E c \in 1..Len(calls) : InFlight(calls[c]))
       => (isOpen => isOpen') /\ Len(calls') = Len(calls)]_vars

(***************************************************************************)
(* C14: an export call one of whose images failed to load has been         *)
(* rejected into handleExport's catch block (which alerts the failure),    *)
(* and has downloaded nothing.                                             *)
(***************************************************************************)
C14_ImageFailureSurfaced ==
  \A c \in 1..Len(calls) : calls[c].errored # {} => calls[c].st = "rejected"

(***************************************************************************)
(* C15: every step in which the worker takes a request off its inbox       *)
(* posts exactly one message: initialized or error for init; complete      *)
(* (with its extension) or error (with its text) for generate.             *)
(***************************************************************************)
AnswersWith(request, answer) ==
  IF request.type = "init"
  THEN answer.type \in {"initialized", "error"}
  ELSE /\ answer.type \in {"complete", "error"}
       /\ answer.type = "complete" => answer.extension # ""
       /\ answer.type = "error" => answer.error # ""

C15_OneAnswerPerRequest ==
  [][Len(workerInbox') < Len(workerInbox)
       => /\ workerInbox' = Tail(workerInbox)
          /\ Len(toMain') = Len(toMain) + 1
          /\ SubSeq(toMain', 1, Len(toMain)) = toMain
          /\ AnswersWith(Head(workerInbox), toMain'[Len(toMain')])]_vars

\* The init request was answered (the service saw initialized), and the answer to
\* the generate request is on its way to the generateMovie call that waits for it.
C15_Witness ==
  /\ svcIsInitialized
  /\ workerInbox = <<>>
  /\ Len(toMain) = 1
  /\ toMain[1].type = "complete"
  /\ "generate" \in listeners

(***************************************************************************)
(* C16: once the worker is initialized it stays initialized; an init       *)
(* request is then answered with initialized and a generate request with   *)
(* the encoder's answer, also when loading the runtime at that moment      *)
(* would fail: the runtime is not loaded again.                            *)
(***************************************************************************)
C16_InitCached ==
  [][(workerIsInitialized /\ Len(workerInbox') < Len(workerInbox))
       => /\ workerIsInitialized'
          /\ LET request == Head(workerInbox)
                 answer == toMain'[Len(toMain')]
             IN IF request.type = "init"
                THEN answer = Response("initialized", "", "")
                ELSE answer.error # LoadError]_vars

\* Two init requests in a row were both answered with initialized.
C16_Witness ==
  /\ workerIsInitialized
  /\ Len(toMain) = 2
  /\ toMain[1].type = "initialized"
  /\ toMain[2].type = "initialized"

(***************************************************************************)
(* C17: the service posts generate only after it has seen initialized,     *)
(* and the worker answers a generate request with the encoder's result     *)
(* only when it is initialized.                                            *)
(***************************************************************************)
PostsGenerate ==
  /\ Len(workerInbox') = Len(workerInbox) + 1
  /\ workerInbox'[Len(workerInbox')].type = "generate"

RunsEncoder ==
  /\ Len(workerInbox') < Len(workerInbox)
  /\ Head(workerInbox).type = "generate"
  /\ toMain'[Len(toMain')] = GenerateResponse(Head(workerInbox))

C17_EncoderOnlyInitialized == [][RunsEncoder => workerIsInitialized']_vars

C17_GenerateAfterInit ==
  /\ [](GeneratePosted => svcIsInitialized /\ workerIsInitialized)
  /\ [][PostsGenerate => svcIsInitialized /\ initPromise = "resolved"]_vars
  /\ C17_EncoderOnlyInitialized

\* The worker has run the encoder for a request the service posted.
C17_Witness ==
  /\ svcIsInitialized
  /\ workerIsInitialized
  /\ exportPc = "awaitResult"
  /\ Len(toMain) = 1
  /\ toMain[1].type \in {"complete", "error"}

(***************************************************************************)
(* C18: the worker answers a generate request for mp4 or webm that has at  *)
(* least one populated frame with an error message, never with complete.   *)
(***************************************************************************)
VideoRequest(request) ==
  /\ request.type = "generate"
  /\ request.format \in {"mp4", "webm"}
  /\ Len(FramesToExport(request.frames)) >= 1

C18_VideoAlwaysError ==
  [][(Len(workerInbox') < Len(workerInbox) /\ VideoRequest(Head(workerInbox)))
       => toMain'[Len(toMain')].type = "error"]_vars

\* An initialized worker has refused a video request.
C18_Witness ==
  /\ workerIsInitialized
  /\ \E i \in 1..Len(toMain) : toMain[i].error = VideoError

(***************************************************************************)
(* C19: a PNG export of k populated frames downloads an archive of exactly *)
(* k files named frame_0000.png .. frame_(k-1).png, by position among the  *)
(* populated frames, whichever slots they are.                             *)
(***************************************************************************)
C19_PngEntriesByPosition ==
  \A c \in 1..Len(calls) :
    (calls[c].format = "png" /\ calls[c].st = "downloaded")
      => /\ Len(calls[c].entries) = Len(calls[c].ids)
         /\ {calls[c].entries[j] : j \in 1..Len(calls[c].entries)}
              = {FrameFileName(j - 1) : j \in 1..Len(calls[c].ids)}

(***************************************************************************)
(* C20: in every state of the export options, the initial one included,    *)
(* format gif or png goes with includeAudio = false.                       *)
(***************************************************************************)
C20_NoAudioForImageFormats ==
  exportOptions.format \in {"gif", "png"} => ~exportOptions.includeAudio

(***************************************************************************)
(* C21: in every state the export options hold a quality in 1..100 and a   *)
(* width and a height that are positive integers, and a resolution change  *)
(* whose value is not a number or is not positive leaves the options as    *)
(* they were.                                                              *)
(***************************************************************************)
NotANumber(value) ==
  \/ Len(value) = 0
  \/ ~IsDigit(value[1]) /\ value[1] \notin {"-", "+", "."}

NotPositive(value) ==
  \/ value[1] = "-"
  \/ \A i \in 1..Len(value) : value[i] \in {"0", "."}

C21_OptionsStayValid ==
  /\ [](/\ exportOptions.quality \in 1..100
        /\ exportOptions.resolution.width \in Nat \ {0}
        /\ exportOptions.resolution.height \in Nat \ {0})
  /\ [][\A dimension \in {"width", "height"}, value \in NumberValues :
          (handleResolutionChange(dimension, value)
             /\ (NotANumber(value) \/ NotPositive(value)))
            => exportOptions' = exportOptions]_vars

\* 320 was typed as the width, 1.5 as the height (kept as 1), and the slider moved to 50.
C21_Witness ==
  /\ exportOptions.resolution.width = 320
  /\ exportOptions.resolution.height = 1
  /\ exportOptions.quality = 50

(***************************************************************************)
(* C22: the recorder of a video export is stopped at most once, and only   *)
(* after every populated frame was drawn; when the export uses the entire  *)
(* soundtrack, only after the audio's duration has passed since the start  *)
(* timestamp; otherwise the stop is the next thing the export does after   *)
(* its last frame.  An export that was downloaded stopped its recorder     *)
(* exactly once.                                                           *)
(***************************************************************************)
Stops(c) == calls'[c].stops > calls[c].stops

AllDrawn(call) == Len(call.done) = Len(call.ids)

ThreeFrames(op, d1, d2, d3) ==
  /\ op.kind = "gifFile"
  /\ Len(op.file.frames) = 3
  /\ ~DecodeFails(op.file, TRUE)
  /\ op.file.frames[1].disposalType = d1
  /\ op.file.frames[2].disposalType = d2
  /\ op.file.frames[3].disposalType = d3

Patched(canvas, gifFrame) == PutImageData(canvas, gifFrame.patch, gifFrame.dims.left)

C23_ClearedThenRestored ==
  \A op \in pending :
    ThreeFrames(op, 0, 2, 3) =>
      LET fs == op.file.frames
          bitmaps == frameImages(fs)
          cleared == NewCanvas(fs[1].dims.width)
      IN /\ Len(bitmaps) = 3
         /\ bitmaps[2] = Patched(cleared, fs[2])
         /\ bitmaps[3] \in {Patched(cleared, fs[3]), Patched(bitmaps[1], fs[3])}

(***************************************************************************)
(* C23, amended: a frame's disposal method takes effect when the next      *)
(* frame is drawn.  With disposal methods 0, 2, 3, frame 2 is frame 1's    *)
(* bitmap plus its own patch and frame 3 is a cleared canvas plus its      *)
(* patch.  With disposal methods 2, 3 for frames 1, 2, frame 2 is a        *)
(* cleared canvas plus its own patch and frame 3 is the state captured     *)
(* just before frame 2 was drawn, the cleared canvas, plus its patch.      *)
(***************************************************************************)
C23_DisposalOfPreviousFrame ==
  \A op \in pending :
    /\ ThreeFrames(op, 0, 2, 3) =>
         LET fs == op.file.frames
             bitmaps == frameImages(fs)
             cleared == NewCanvas(fs[1].dims.width)
         IN /\ Len(bitmaps) = 3
            /\ bitmaps[1] = Patched(cleared, fs[1])
            /\ bitmaps[2] = Patched(bitmaps[1], fs[2])
            /\ bitmaps[3] = Patched(cleared, fs[3])
    /\ \A d3 \in Disposals :
         ThreeFrames(op, 2, 3, d3) =>
           LET fs == op.file.frames
               bitmaps == frameImages(fs)
               cleared == NewCanvas(fs[1].dims.width)
           IN /\ Len(bitmaps) = 3
              /\ bitmaps[2] = Patched(cleared, fs[2])
              /\ bitmaps[3] = Patched(cleared, fs[3])

\* Frame 1 paints both pixels, frame 2 the right one, frame 3 the left one.
C23_Witness ==
  \E op \in pending :
    /\ ThreeFrames(op, 0, 2, 3)
    /\ frameImages(op.file.frames) = <<(<<1, 1>>), (<<1, 2>>), (<<3, 0>>)>>

(***************************************************************************)
(* C24: when the decoding of a GIF fails (the parser throws, the file has  *)
(* no frame, the canvas gives no 2d context, a patch does not fit its      *)
(* dims), the step that handles the file changes no slot and shows the     *)
(* alert that asks for another file.                                       *)
(***************************************************************************)
Undecodable(file, ctx) ==
  \/ ~file.parses
  \/ file.frames = <<>>
  \/ ~ctx
  \/ \E i \in 1..Len(file.frames) : Len(file.frames[i].patch) # file.frames[i].dims.width

C24_FailedDecodeChangesNothing ==
  [][\A op \in pending, ctx \in BOOLEAN :
       ((processGifFile(op, ctx) \/ processGifEditorFile(op, ctx))
          /\ Undecodable(op.file, ctx))
       => (frames' = frames /\ alertMsg' = GifAlert)]_vars

\* A GIF was handled on a timeline that holds a still: the alert is shown and
\* no slot holds a GIF frame.
C24_Witness ==
  /\ alertMsg = GifAlert
  /\ pending = {}
  /\ \E i \in 1..Len(frames) : frames[i].image.kind = "img"
  /\ \A i \in 1..Len(frames) : frames[i].image.kind # "gif"

(***************************************************************************)
(* C25: every artifact handed to the browser is named                      *)
(* animation-<millis>.<format> when the format exported is gif, mp4 or     *)
(* webm, and animation-frames-<millis>.zip when it is a PNG sequence, in   *)
(* the worker-backed modal and in the in-process one.                      *)
(***************************************************************************)
ArtifactName(format, now) ==
  IF format = "png" THEN "animation-frames-" \o DecimalString(now) \o ".zip"
  ELSE "animation-" \o DecimalString(now) \o "." \o format

\* The format of the export whose artifact this step downloads: the in-process
\* call that becomes downloaded, or the format the worker was asked for.
Downloading(format) ==
  /\ downloads' > downloads
  /\ IF \E c \in 1..Len(calls) : calls'[c].st = "downloaded" /\ calls[c].st # "downloaded"
     THEN \E c \in 1..Len(calls) :
            /\ calls'[c].st = "downloaded" /\ calls[c].st # "downloaded"
            /\ calls[c].format = format
     ELSE exportOptions.format = format

C25_ArtifactNames ==
  [][\A format \in ExportFormats :
       Downloading(format)
         => \E now \in 0..MaxNow : linkDownload' = ArtifactName(format, now)]_vars

(***************************************************************************)
(* C26: pressing Stop on a loaded, generated timeline leaves playback      *)
(* stopped, the clock at 0 and slot 0 selected, and the timeout Stop sets  *)
(* keeps it so, whatever slot was selected or remembered.                  *)
(***************************************************************************)
AtStart == ~isPlaying /\ RatEq(currentTime, Time(0)) /\ selectedFrame = 0

C26_StopReturnsToStart ==
  [][/\ (handleStop /\ isWaveformReady /\ Len(frames) > 0) => AtStart'
     /\ \A op \in pending : (stopTimeout(op) /\ isWaveformReady /\ AtStart) => AtStart']_vars

(***************************************************************************)
(* C27: "Remove Image" on a populated slot leaves that slot without an     *)
(* image: it is shown as empty, it is not among the frames an encoder is   *)
(* handed, the export is refused as empty when no other slot is populated, *)
(* and every other slot is as it was.                                      *)
(***************************************************************************)
C27_RemoveUnpopulates ==
  [][handleRemoveImage =>
       LET s == selectedFrame + 1
           toEncoder == FramesToExport(frames')
       IN /\ Truthy(frames[s].image)
          /\ ~Truthy(frames'[s].image)
          /\ Len(frames') = Len(frames)
          /\ frames'[s].id = frames[s].id
          /\ frames'[s].time = frames[s].time
          /\ \A i \in 1..Len(frames) : i # s => frames'[i] = frames[i]
          /\ \A j \in 1..Len(toEncoder) : toEncoder[j].id # frames[s].id
          /\ (\A i \in 1..Len(frames) : i # s => ~Truthy(frames[i].image))
               => NoFramesToExport(frames')]_vars

\* Two slots held an image and the image of one was removed.
C27_Witness ==
  \E i, j \in 1..Len(frames) :
    /\ frames[i].image = EmptyUrl
    /\ Truthy(frames[j].image)

(***************************************************************************)
(* C28: a complete or error message from the worker settles every call of  *)
(* generateMovie that is listening, with that message, whichever request   *)
(* it answers: of two overlapping calls one is settled by the answer to    *)
(* the other's request.                                                    *)
(***************************************************************************)
C28_FirstAnswerSettlesEveryCall ==
  [][(dispatchMessage /\ Head(toMain).type \in {"complete", "error"})
       => \A c \in 1..Len(calls) :
            calls[c].st = "listening"
              => /\ calls'[c].st = IF Head(toMain).type = "complete" THEN "resolved"
                                   ELSE "rejected"
                 /\ calls'[c].result = Head(toMain)]_vars

\* A call for a PNG sequence and a call for a GIF were both resolved with the GIF.
C28_Witness ==
  \E c, d \in 1..Len(calls) :
    /\ calls[c].format = "png"
    /\ calls[d].format = "gif"
    /\ calls[c].st = "resolved"
    /\ calls[d].st = "resolved"
    /\ calls[c].result.extension = "gif"
    /\ calls[d].result.extension = "gif"

(***************************************************************************)
(* C29: image assignments that complete asynchronously do not overwrite    *)
(* each other: when a file read or a GIF decode completes, the slots it    *)
(* assigns hold its images and every other slot keeps the image an earlier *)
(* completion gave it, so that after any interleaving of the completions   *)
(* all the assignments are in the timeline.                                *)
(***************************************************************************)
\* The slots the completion of op assigns: the slot of the drop, and for a GIF
\* the slots it spans.
OwnSlots(op) ==
  {op.frameId} \cup
    (IF op.kind = "gif"
     THEN {k \in 0..(Len(frames) - 1) :
             /\ k >= op.frameId
             /\ k < op.frameId
                      + AvailableFrames(op.frameId, AudioFramesForGif(op.total), Len(frames))}
     ELSE {})

Completes(op) == readerOnload(op) \/ processGifForFrame(op)

C29_OverlappingAssignmentsKept ==
  [][\A op \in pending :
       Completes(op) =>
         /\ op.kind = "image" => frames'[op.frameId + 1].image = op.images[1]
         /\ \A i \in 1..Len(frames) :
              (i - 1) \notin OwnSlots(op) => frames'[i].image = frames[i].image]_vars

(***************************************************************************)
(* C30: a GIF that decodes to at least one frame, dropped on a slot of the *)
(* timeline, leaves that slot holding the GIF's first composited frame     *)
(* when processGifForFrame completes, whatever the GIF's total duration,   *)
(* 0 included.                                                             *)
(***************************************************************************)
FirstComposited(file) == ToDataURL(frameImages(file.frames)[1])

C30_DropSlotHoldsFirstFrame ==
  [][\A op \in pending, ctx \in BOOLEAN :
       (processGifFile(op, ctx) /\ ~DecodeFails(op.file, ctx))
         => frames'[op.frameId + 1].image = FirstComposited(op.file)]_vars

(***************************************************************************)
(* C31: in every reachable state the selected slot is none or an index of  *)
(* the timeline, also after Stop was pressed before the timeline was       *)
(* generated or on an empty timeline.                                      *)
(***************************************************************************)
C31_SelectionInRange ==
  selectedFrame = Null \/ selectedFrame \in 0..(Len(frames) - 1)

GenerateOutstanding == "generate" \in listeners

C33_ExportingExactlyWhileOutstanding ==
  /\ [](isExporting <=> GenerateOutstanding)
  /\ [][PostsGenerate => ~GenerateOutstanding]_vars

(***************************************************************************)
(* C33, amended: no generate request is posted while an earlier one waits  *)
(* for its answer; the exporting flag is set from the accepted click on    *)
(* Export until the call has settled, which covers the whole time a        *)
(* request waits for its answer and also the wait for the initialization   *)
(* and for the audio file's bytes before the request is posted.            *)
(***************************************************************************)
C33_OneGenerateWhileExporting ==
  /\ [](GenerateOutstanding => isExporting)
  /\ [](isExporting <=> exportPc # "idle")
  /\ [](GenerateOutstanding <=> exportPc = "awaitResult")
  /\ [][PostsGenerate => ~GenerateOutstanding /\ isExporting]_vars

\* The export of a video waits for the audio file's bytes: the flag is set and no
\* generate request has been posted.
C33_Witness ==
  /\ isExporting
  /\ exportPc = "awaitAudio"
  /\ ~GenerateOutstanding
  /\ ~GeneratePosted

(***************************************************************************)
(* The in-process GIF backend and the order of the encoder's frames.       *)
(* gif.addFrame is called inside img.onload, so the encoder receives the   *)
(* frames in the order in which the image loads complete; `done` records   *)
(* that order.                                                             *)
(***************************************************************************)
\* The slot ids a call has appended to the encoder, in the order of the appends.
Appended(call) == [j \in 1..Len(call.done) |-> call.ids[call.done[j]]]

\* C34: the in-process GIF backend appends the populated frames to the
\* encoder in ascending slot id, each exactly once, whatever the order in
\* which the image loads complete, and the render starts only after every
\* frame has been appended.
C34_AppendedInTimelineOrder ==
  \A c \in 1..Len(calls) :
    calls[c].format = "gif" =>
      /\ \A j, k \in 1..Len(calls[c].done) :
           j < k => Appended(calls[c])[j] < Appended(calls[c])[k]
      /\ calls[c].st \in {"rendering", "downloaded"} =>
           Len(calls[c].done) = Len(calls[c].ids)

(***************************************************************************)
(* exportAsVideo's frame schedule.  The closure of one recording:          *)
(*   framesToExport  how many populated frames it draws                    *)
(*   frameDuration   1000 / fps, in clock ticks                            *)
(*   startTime       performance.now() read once, before the first frame   *)
(*   totalDuration   the soundtrack's length when the capture lasts that   *)
(*                   long, else Null                                       *)
(*   frameIndex      the next frame to draw                                *)
(*   now             performance.now()                                     *)
(*   setAt, delay    when the running timer was set, and with which delay  *)
(*   calledAt        when drawNextFrame was last called                    *)
(*   pc              loading (drawNextFrame awaits its image), timer,      *)
(*                   waiting (for the audio), stopped, stalled             *)
(*   drawn           the frames drawn, each with the timer that led to it  *)
(* The recorder has started and handleExport has reached its finally.      *)
(***************************************************************************)
MaxVideoFrames == 3
MaxFrameDuration == 2
MaxStart == 1
MaxClock == 6

Max(a, b) == IF a >= b THEN a ELSE b

VideoExport(n, fd, start, total) ==
  [framesToExport |-> n, frameDuration |-> fd, startTime |-> start, totalDuration |-> total,
   frameIndex |-> 0, now |-> start, setAt |-> start, delay |-> 0, calledAt |-> start,
   pc |-> "loading", drawn |-> <<>>]

ScheduleInit ==
  /\ frames \in {[i \in 1..n |-> Slot(i, Img("img", 1, 1))] : n \in 1..MaxVideoFrames}
  /\ selectedFrame = Null
  /\ isPlaying = FALSE
  /\ duration = Time(0)
  /\ currentTime = Time(0)
  /\ isWaveformReady = FALSE
  /\ audioFile = 1
  /\ audioDuration = Time(0)
  /\ pending = {}
  /\ lastSelectedFrame = Null
  /\ isOpen = TRUE
  /\ isExporting = FALSE
  /\ progress = 100
  /\ isPyodideLoading = FALSE
  /\ exportOptions \in {[InitialExportOptions EXCEPT !.format = "mp4",
                                                     !.useEntireSoundtrack = u] :
                          u \in BOOLEAN}
  /\ alertMsg = ""
  /\ exportPc = "idle"
  /\ svcIsInitialized = FALSE
  /\ initPromise = "pending"
  /\ listeners = {"init"}
  /\ workerInbox = <<InitRequest>>
  /\ workerIsInitialized = FALSE
  /\ toMain = <<>>
  /\ downloads = 0
  /\ linkDownload = ""
  /\ worker = 1
  /\ workersCreated = 1
  /\ workerRunning = <<>>
  /\ pyodideLoads = 0
  /\ \E fd \in 1..MaxFrameDuration, start \in 0..MaxStart :
       videoExport = VideoExport(Len(FramesToExport(frames)), fd, start,
                                 IF exportOptions.useEntireSoundtrack
                                 THEN SoundtrackTicks * MaxFrameDuration ELSE Null)
  /\ exportStatus = ExportCompleteStatus
  /\ statusTimers = 1
  /\ calls = <<>>

\* performance.now() moves on while the recording waits for an image or a timer.
performanceNow ==
  /\ videoExport.pc # "none"
  /\ videoExport.pc \in {"loading", "timer", "waiting"}
  /\ videoExport.now < MaxClock
  /\ videoExport' = [videoExport EXCEPT !.now = @ + 1]
  /\ UNCHANGED <<playerVars, inProcessVars, worker, workersCreated, workerRunning,
                 pyodideLoads, isOpen,
                 isExporting, progress, isPyodideLoading, exportOptions, alertMsg, exportPc,
                 svcIsInitialized, initPromise, listeners, workerInbox, workerIsInitialized,
                 toMain, downloads, linkDownload>>

(***************************************************************************)
(* The timer set by the previous frame runs drawNextFrame.  Past the last  *)
(* frame it stops the recorder, or sets the timer that will stop it when   *)
(* the soundtrack is over; otherwise it starts loading the frame's image.  *)
(***************************************************************************)
drawNextFrameCalled ==
  /\ videoExport.pc # "none"
  /\ videoExport.pc = "timer"
  /\ videoExport.now >= videoExport.setAt + videoExport.delay
  /\ IF videoExport.frameIndex >= videoExport.framesToExport
     THEN LET elapsed == videoExport.now - videoExport.startTime
              remainingTime ==
                IF videoExport.totalDuration = Null THEN 0
                ELSE Max(0, videoExport.totalDuration - elapsed)
          IN IF remainingTime > 0
             THEN /\ exportStatus' = "Waiting for audio to complete"
                  /\ videoExport' = [videoExport EXCEPT !.pc = "waiting",
                                       !.setAt = videoExport.now, !.delay = remainingTime]
             ELSE /\ exportStatus' = "Finalizing video..."
                  /\ videoExport' = [videoExport EXCEPT !.pc = "stopped"]
     ELSE /\ videoExport' = [videoExport EXCEPT !.pc = "loading",
                               !.calledAt = videoExport.now]
          /\ UNCHANGED exportStatus
  /\ UNCHANGED <<playerVars, statusTimers, calls, worker, workersCreated, workerRunning,
                 pyodideLoads, isOpen,
                 isExporting, progress, isPyodideLoading, exportOptions, alertMsg, exportPc,
                 svcIsInitialized, initPromise, listeners, workerInbox, workerIsInitialized,
                 toMain, downloads, linkDownload>>

\* setTimeout(drawNextFrame, frameDuration): a schedule relative to the last frame.
drawNextFrameDrawnFixedDelay ==
  /\ videoExport.pc # "none"
  /\ videoExport.pc = "loading"
  /\ LET frameIndex == videoExport.frameIndex
         progressValue ==
           IF videoExport.totalDuration # Null
           THEN FloorDiv((videoExport.now - videoExport.startTime) * 100,
                         videoExport.totalDuration)
           ELSE FloorDiv(frameIndex * 100, videoExport.framesToExport)
     IN /\ progress' = Min(progressValue, 99)
        /\ exportStatus' = "Processing frame"
        /\ videoExport' =
             [videoExport EXCEPT
                !.drawn = Append(@, [index |-> frameIndex, setAt |-> videoExport.setAt,
                                     delay |-> videoExport.delay,
                                     calledAt |-> videoExport.calledAt,
                                     at |-> videoExport.now]),
                !.frameIndex = frameIndex + 1,
                !.setAt = videoExport.now,
                !.delay = videoExport.frameDuration,
                !.pc = "timer"]
  /\ UNCHANGED <<playerVars, statusTimers, calls, worker, workersCreated, workerRunning,
                 pyodideLoads, isOpen,
                 isExporting, isPyodideLoading, exportOptions, alertMsg, exportPc,
                 svcIsInitialized, initPromise, listeners, workerInbox, workerIsInitialized,
                 toMain, downloads, linkDownload>>

(***************************************************************************)
(* drawNextFrame after its image loaded: it draws the frame, reports the   *)
(* progress, increments frameIndex and sets the timer of the next call     *)
(* from the time elapsed since startTime.                                  *)
(***************************************************************************)
drawNextFrameDrawn ==
  /\ videoExport.pc # "none"
  /\ videoExport.pc = "loading"
  /\ LET frameIndex == videoExport.frameIndex
         progressValue ==
           IF videoExport.totalDuration # Null
           THEN FloorDiv((videoExport.now - videoExport.startTime) * 100,
                         videoExport.totalDuration)
           ELSE FloorDiv(frameIndex * 100, videoExport.framesToExport)
         elapsed == videoExport.now - videoExport.startTime
         targetTime == (frameIndex + 1) * videoExport.frameDuration
         delay == Max(0, targetTime - elapsed)
     IN /\ progress' = Min(progressValue, 99)
        /\ exportStatus' = "Processing frame"
        /\ videoExport' =
             [videoExport EXCEPT
                !.drawn = Append(@, [index |-> frameIndex, setAt |-> videoExport.setAt,
                                     delay |-> videoExport.delay,
                                     calledAt |-> videoExport.calledAt,
                                     at |-> videoExport.now]),
                !.frameIndex = frameIndex + 1,
                !.setAt = videoExport.now,
                !.delay = delay,
                !.pc = "timer"]
  /\ UNCHANGED <<playerVars, statusTimers, calls, worker, workersCreated, workerRunning,
                 pyodideLoads, isOpen,
                 isExporting, isPyodideLoading, exportOptions, alertMsg, exportPc,
                 svcIsInitialized, initPromise, listeners, workerInbox, workerIsInitialized,
                 toMain, downloads, linkDownload>>

\* img.onerror: the awaited promise rejects; no timer is set and nothing stops the recorder.
drawNextFrameRejected ==
  /\ videoExport.pc # "none"
  /\ videoExport.pc = "loading"
  /\ videoExport' = [videoExport EXCEPT !.pc = "stalled"]
  /\ UNCHANGED <<playerVars, inProcessVars, worker, workersCreated, workerRunning,
                 pyodideLoads, isOpen,
                 isExporting, progress, isPyodideLoading, exportOptions, alertMsg, exportPc,
                 svcIsInitialized, initPromise, listeners, workerInbox, workerIsInitialized,
                 toMain, downloads, linkDownload>>

\* The timer set for the rest of the soundtrack: recorder.stop().
audioTimeout ==
  /\ videoExport.pc # "none"
  /\ videoExport.pc = "waiting"
  /\ videoExport.now >= videoExport.setAt + videoExport.delay
  /\ exportStatus' = "Finalizing video..."
  /\ videoExport' = [videoExport EXCEPT !.pc = "stopped"]
  /\ UNCHANGED <<playerVars, statusTimers, calls, worker, workersCreated, workerRunning,
                 pyodideLoads, isOpen,
                 isExporting, progress, isPyodideLoading, exportOptions, alertMsg, exportPc,
                 svcIsInitialized, initPromise, listeners, workerInbox, workerIsInitialized,
                 toMain, downloads, linkDownload>>

ScheduleNext ==
  \/ performanceNow
  \/ drawNextFrameCalled
  \/ drawNextFrameDrawn
  \/ drawNextFrameRejected
  \/ audioTimeout

ScheduleSpec == ScheduleInit /\ [][ScheduleNext]_vars

\* The time at which frame k is meant to be drawn.
TargetOf(k) == videoExport.startTime + k * videoExport.frameDuration

C36_OneBitmapPerFrame ==
  \A op \in pending :
    (op.kind = "gifFile" /\ ~DecodeFails(op.file, TRUE)) =>
      LET fs == op.file.frames
          n == Len(fs)
          bitmaps == frameImages(fs)
          cleared == NewCanvas(fs[1].dims.width)
          before[i \in 1..n] ==
            IF i = 1 THEN cleared
            ELSE IF fs[i - 1].disposalType = 2 THEN cleared
            ELSE IF fs[i - 1].disposalType = 3 THEN before[i - 1]
            ELSE bitmaps[i - 1]
          sum[k \in 0..n] == IF k = 0 THEN 0 ELSE sum[k - 1] + fs[k].delay
      IN /\ Len(bitmaps) = n
         /\ \A i \in 1..n : bitmaps[i] = Patched(before[i], fs[i])
         /\ TotalDuration(fs) = <<sum[n], TimeDen>>

\* Frame 1 paints both pixels, frame 2 the right one and asks to be undone,
\* frame 3 the left one: the right pixel is frame 1's again.
C36_Witness ==
  \E op \in pending :
    /\ ThreeFrames(op, 0, 3, 0)
    /\ op.file.frames[1].delay > 0
    /\ frameImages(op.file.frames) = <<(<<1, 1>>), (<<1, 2>>), (<<3, 1>>)>>

(***************************************************************************)
(* The Frame Mapper on timelines of the length at which the doubles        *)
(* matter: one GIF has been dropped on an empty timeline and is decoded.   *)
(***************************************************************************)
\* The timeline's length in slots.
MaxMapperSlots == 22
\* The most sub-frames of the dropped GIF.
MaxMapperGifFrames == 22
\* The longest GIF lasts MaxMapperTotal/TimeDen seconds.
MaxMapperTotal == 33
\* The last slot a GIF is dropped on.
MaxMapperStart == 1

MapperInit ==
  /\ audioDuration = <<MaxMapperSlots, FPS>>
  /\ frames = NewFrames(audioDuration)
  /\ selectedFrame = Null
  /\ isPlaying = FALSE
  /\ duration = audioDuration
  /\ currentTime = Time(0)
  /\ isWaveformReady = TRUE
  /\ audioFile = 1
  /\ \E frameId \in 0..MaxMapperStart, n \in 1..MaxMapperGifFrames, m \in 0..MaxMapperTotal :
       pending = {Op("gif", frameId, GifFrames(n), Time(m), frames)}
  /\ lastSelectedFrame = Null
  /\ ExportVarsInit

MapperNext == \E op \in pending : processGifForFrame(op)

MapperSpec == MapperInit /\ [][MapperNext]_vars

\* The GIF frame that slot startFrameId + i of a timeline holds.
AssignedIndex(frs, startFrameId, i) == frs[startFrameId + i + 1].image.idx

\* C37: the Frame Mapper preserves the GIF's order: the GIF frame index
\* assigned is non-decreasing in the slot offset, the first affected slot
\* gets GIF frame 0, and when the available slots are at least as many as
\* the GIF's frames every GIF frame is assigned to at least one slot and the
\* last affected slot gets the last GIF frame.
C37_MapperPreservesOrder ==
  [][\A op \in pending :
       processGifForFrame(op) =>
         LET start == op.frameId
             n == Len(op.images)
             available == AvailableFrames(start, AudioFramesForGif(op.total),
                                          Len(op.closure))
         IN /\ \A i \in 0..(available - 2) :
                 AssignedIndex(frames', start, i) <= AssignedIndex(frames', start, i + 1)
            /\ available >= 1 => AssignedIndex(frames', start, 0) = 0
            /\ available >= n =>
                 /\ \A j \in 0..(n - 1) :
                      \E i \in 0..(available - 1) : AssignedIndex(frames', start, i) = j
                 /\ AssignedIndex(frames', start, available - 1) = n - 1]_vars

(***************************************************************************)
(* PythonExportService over its whole life: ensureInitialized and          *)
(* generateMovie called by callers that do not wait for one another, and   *)
(* terminate.  A call is tied to the Worker whose initialization it awaits *)
(* or on which it registered its handler:                                  *)
(*   kind     ensureInitialized or generateMovie                           *)
(*   worker   that Worker                                                  *)
(*   st       awaitInit       the initPromise it awaits is pending         *)
(*            initResolved    generateMovie is to go on after its await    *)
(*            initRejected    generateMovie is to throw after its await    *)
(*            listening       generate is posted, the handler registered   *)
(*            resolved, rejected                                           *)
(* Worker.terminate() stops the worker and discards the messages it has    *)
(* not handled and the messages of it that were not yet dispatched; the    *)
(* handlers registered on it are never called again.  The calls pass no    *)
(* audio file.                                                             *)
(***************************************************************************)
MaxLifecycleCalls == 3
MaxWorkers == 2

LifecycleFormats == {"gif", "mp4"}

\* What the initialization is rejected with.
InitError == Response("error", "", LoadError)

WorkerUnavailable == Response("error", "", "Web worker is not available")

LifecycleCall(kind, format, frs, boundTo, st, result) ==
  [kind |-> kind, format |-> format, frames |-> frs, worker |-> boundTo, st |-> st,
   result |-> result]

NoResult == Response("", "", "")

(***************************************************************************)
(* ensureInitialized(), called directly (the promise it returns is the     *)
(* call) or as the first statement of generateMovie.  Without an           *)
(* initPromise it runs initWorker: a new Worker, a new initPromise, the    *)
(* handler and one init message.                                           *)
(***************************************************************************)
ensureInitialized(kind, format) ==
  /\ Len(calls) < MaxLifecycleCalls
  /\ IF svcIsInitialized
     THEN /\ calls' = Append(calls,
                 LifecycleCall(kind, format, frames, worker,
                               IF kind = "generateMovie" THEN "initResolved" ELSE "resolved",
                               NoResult))
          /\ UNCHANGED <<worker, workersCreated, initPromise, listeners, workerInbox, toMain,
                         workerIsInitialized>>
     ELSE IF initPromise = "null"
     THEN /\ worker' = workersCreated + 1
          /\ workersCreated' = workersCreated + 1
          /\ initPromise' = "pending"
          /\ listeners' = {"init"}
          /\ workerInbox' = <<InitRequest>>
          /\ toMain' = <<>>
          /\ workerIsInitialized' = FALSE
          /\ calls' = Append(calls,
                 LifecycleCall(kind, format, frames, worker', "awaitInit", NoResult))
     ELSE /\ calls' = Append(calls,
                 IF initPromise = "pending"
                 THEN LifecycleCall(kind, format, frames, worker, "awaitInit", NoResult)
                 ELSE IF kind = "generateMovie"
                 THEN LifecycleCall(kind, format, frames, worker, "initRejected", InitError)
                 ELSE LifecycleCall(kind, format, frames, worker, "rejected", InitError))
          /\ UNCHANGED <<worker, workersCreated, initPromise, listeners, workerInbox, toMain,
                         workerIsInitialized>>
  /\ UNCHANGED <<playerVars, exportStatus, statusTimers, workerRunning, pyodideLoads,
                 videoExport, isOpen, isExporting, progress, isPyodideLoading, exportOptions,
                 alertMsg, exportPc, svcIsInitialized, downloads, linkDownload>>

\* generateMovie after `await this.ensureInitialized()`.
generateMovieResumes(c) ==
  /\ c \in 1..Len(calls)
  /\ calls[c].st \in {"initResolved", "initRejected"}
  /\ IF calls[c].st = "initRejected"
     THEN /\ calls' = [calls EXCEPT ![c].st = "rejected"]
          /\ UNCHANGED workerInbox
     ELSE IF worker = Null
     THEN /\ calls' = [calls EXCEPT ![c].st = "rejected", ![c].result = WorkerUnavailable]
          /\ UNCHANGED workerInbox
     ELSE /\ calls' = [calls EXCEPT ![c].st = "listening", ![c].worker = worker]
          /\ workerInbox' =
               Append(workerInbox, Request("generate", calls[c].format, calls[c].frames))
  /\ UNCHANGED <<playerVars, exportStatus, statusTimers, lifecycleVars, isOpen, isExporting,
                 progress, isPyodideLoading, exportOptions, alertMsg, exportPc,
                 svcIsInitialized, initPromise, listeners, workerIsInitialized, toMain,
                 downloads, linkDownload>>

\* What the handlers of a call tied to the worker do with its message m.
Handled(call, m, initResolves, initRejects) ==
  IF call.st = "listening" /\ m.type \in {"complete", "error"}
  THEN [call EXCEPT !.st = IF m.type = "complete" THEN "resolved" ELSE "rejected",
                    !.result = m]
  ELSE IF call.st = "awaitInit" /\ initResolves
  THEN [call EXCEPT !.st = IF call.kind = "generateMovie" THEN "initResolved"
                            ELSE "resolved"]
  ELSE IF call.st = "awaitInit" /\ initRejects
  THEN [call EXCEPT !.st = IF call.kind = "generateMovie" THEN "initRejected"
                            ELSE "rejected",
                    !.result = m]
  ELSE call

\* A message event of the service's worker on the main thread.  It is a task of
\* its own: the continuations of the awaits that the previous task settled have
\* run before it.
messageEvent ==
  /\ Len(toMain) > 0
  /\ \A c \in 1..Len(calls) : calls[c].st \notin {"initResolved", "initRejected"}
  /\ LET m == Head(toMain)
         initResolves == "init" \in listeners /\ m.type = "initialized"
         initRejects == "init" \in listeners /\ m.type = "error" /\ ~svcIsInitialized
     IN /\ toMain' = Tail(toMain)
        /\ svcIsInitialized' = (svcIsInitialized \/ initResolves)
        /\ initPromise' = IF initResolves THEN "resolved"
                          ELSE IF initRejects THEN "rejected" ELSE initPromise
        /\ listeners' = listeners \ (IF initResolves \/ initRejects THEN {"init"} ELSE {})
        /\ calls' = [c \in 1..Len(calls) |->
                       IF calls[c].worker = worker
                       THEN Handled(calls[c], m, initResolves, initRejects)
                       ELSE calls[c]]
  /\ UNCHANGED <<playerVars, exportStatus, statusTimers, lifecycleVars, isOpen, isExporting,
                 progress, isPyodideLoading, exportOptions, alertMsg, exportPc, workerInbox,
                 workerIsInitialized, downloads, linkDownload>>

\* terminate() that leaves initPromise as it is.
terminateKeepsPromise ==
  /\ worker # Null
  /\ worker' = Null
  /\ svcIsInitialized' = FALSE
  /\ listeners' = {}
  /\ workerInbox' = <<>>
  /\ toMain' = <<>>
  /\ workerIsInitialized' = FALSE
  /\ UNCHANGED <<playerVars, inProcessVars, workersCreated, workerRunning, pyodideLoads,
                 videoExport, isOpen, isExporting, progress, isPyodideLoading, exportOptions,
                 alertMsg, exportPc, initPromise, downloads, linkDownload>>

\* terminate(): the worker is stopped and the service forgets it, its
\* initialization and the promise of it.
terminate ==
  /\ worker # Null
  /\ worker' = Null
  /\ svcIsInitialized' = FALSE
  /\ initPromise' = "null"
  /\ listeners' = {}
  /\ workerInbox' = <<>>
  /\ toMain' = <<>>
  /\ workerIsInitialized' = FALSE
  /\ UNCHANGED <<playerVars, inProcessVars, workersCreated, workerRunning, pyodideLoads,
                 videoExport, isOpen, isExporting, progress, isPyodideLoading, exportOptions,
                 alertMsg, exportPc, downloads, linkDownload>>

LifecycleInit ==
  /\ frames \in {<<>>, <<Slot(1, Img("img", 1, 1))>>}
  /\ selectedFrame = Null
  /\ isPlaying = FALSE
  /\ duration = Time(0)
  /\ currentTime = Time(0)
  /\ isWaveformReady = FALSE
  /\ audioFile = Null
  /\ audioDuration = Time(0)
  /\ pending = {}
  /\ lastSelectedFrame = Null
  /\ ExportVarsInit

LifecycleNext ==
  \/ /\ initPromise # "null" \/ workersCreated < MaxWorkers
     /\ ensureInitialized("ensureInitialized", "")
  \/ /\ initPromise # "null" \/ workersCreated < MaxWorkers
     /\ \E format \in LifecycleFormats : ensureInitialized("generateMovie", format)
  \/ \E c \in 1..Len(calls) : generateMovieResumes(c)
  \/ \E loads \in BOOLEAN : workerInit(loads)
  \/ \E loads \in BOOLEAN : workerGenerate(loads)
  \/ messageEvent
  \/ terminate

LifecycleSpec == LifecycleInit /\ [][LifecycleNext]_vars

\* A call is made in this step.
Called == Len(calls') = Len(calls) + 1

\* This step posts a message to the worker.
Posts == Len(workerInbox') > Len(workerInbox) \/ (workerInbox' # <<>> /\ worker' # worker)

\* C38: after the worker's initialization has failed, every later
\* ensureInitialized and generateMovie call rejects with the initialization's
\* error, and posts nothing to the worker, until terminate() is called; after
\* terminate() the next ensureInitialized creates a new worker and posts
\* exactly one init.
C38_FailureCachedUntilTerminate ==
  /\ [][(initPromise = "rejected" /\ worker' # Null) =>
          /\ initPromise' = "rejected"
          /\ ~svcIsInitialized'
          /\ worker' = worker
          /\ ~Posts
          /\ Called => /\ calls'[Len(calls')].result = InitError
                       /\ calls'[Len(calls')].st =
                            IF calls'[Len(calls')].kind = "generateMovie"
                            THEN "initRejected" ELSE "rejected"]_vars
  /\ [][\A c \in 1..Len(calls) :
          (calls[c].st = "initRejected" /\ calls'[c] # calls[c]) =>
            /\ calls'[c] = [calls[c] EXCEPT !.st = "rejected"]
            /\ calls'[c].result = InitError
            /\ ~Posts]_vars
  /\ [][(worker = Null /\ Called) =>
          /\ worker' \notin {Null} \cup 1..workersCreated
          /\ workerInbox' = <<InitRequest>>
          /\ initPromise' = "pending"]_vars
  /\ [][(worker # Null /\ Called) => worker' = worker /\ workerInbox' = workerInbox]_vars

\* The initialization of the first worker failed, a generateMovie call and an
\* ensureInitialized call made after that were rejected with its error, the
\* service was terminated, and a further call has created the second worker.
C38_Witness ==
  /\ worker = 2
  /\ workerInbox = <<InitRequest>>
  /\ Len(calls) = 3
  /\ calls[1].kind = "generateMovie" /\ calls[1].st = "rejected" /\ calls[1].worker = 1
  /\ calls[1].result = InitError
  /\ calls[2].kind = "ensureInitialized" /\ calls[2].st = "rejected"
  /\ calls[3].st = "awaitInit" /\ calls[3].worker = 2

(***************************************************************************)
(* The same service with the scheduling that C39 assumes: the worker       *)
(* answers every request it receives, the main thread dispatches every     *)
(* message and runs every continuation.  Calls and terminate() come when   *)
(* the callers like.                                                       *)
(***************************************************************************)
LifecycleFairSpec ==
  /\ LifecycleSpec
  /\ WF_vars(\E loads \in BOOLEAN : workerInit(loads))
  /\ WF_vars(\E loads \in BOOLEAN : workerGenerate(loads))
  /\ WF_vars(messageEvent)
  /\ \A c \in 1..MaxLifecycleCalls : WF_vars(generateMovieResumes(c))

\* C39: every generateMovie call eventually settles, resolved with a result
\* or rejected with an error, given that the worker answers every request
\* it receives; also when terminate() is called while the call is pending.
C39_EveryCallSettles ==
  \A c \in 1..MaxLifecycleCalls :
    (c <= Len(calls) /\ calls[c].kind = "generateMovie")
      ~> (c <= Len(calls) /\ calls[c].st \in {"resolved", "rejected"})

=============================================================================
